---- MODULE Spec2Model ----
(***************************************************************************)
(* A model of the Nexus wireframe room: the room geometry                  *)
(* (lib/room-geometry.ts), the floating window component with its header   *)
(* drag and edge resize gestures (AppWindow) and the room composer that    *)
(* owns the window list (WireframeRoom).                                   *)
(*                                                                         *)
(* JavaScript numbers are modelled by exact rationals <<n, d>> (d > 0, in  *)
(* lowest terms); pixel coordinates of pointer events are integers.        *)
(***************************************************************************)
EXTENDS Integers, Sequences, FiniteSets, TLC

\* ------------------------------------------------------------------------
\* Bounds of the model
\* ------------------------------------------------------------------------

\* viewport widths explored by the geometry specification: 50, 100, ..., 50 * MaxViewSteps
MaxViewSteps == 24

\* the classifier is probed on a (ProbeSteps + 1) x (ProbeSteps + 1) grid of [0,100] x [0,100]
ProbeSteps == 10

\* pointer-down events in one behaviour of the pointer-event specification
MaxDowns == 2

\* pointer-down events in one behaviour of the specification with viewport and mobile changes
MaxEnvDowns == 1

\* stacking indices 0..MaxStackIndex are tried in defaultWindowPos
MaxStackIndex == 3

\* viewport size changes in one behaviour
MaxResizes == 1

\* animations started in one behaviour of the grid specification
MaxActivations == 3

\* ------------------------------------------------------------------------
\* Numbers
\* ------------------------------------------------------------------------

Abs(n) == IF n < 0 THEN -n ELSE n

RECURSIVE GCD(_, _)
GCD(a, b) == IF b = 0 THEN a ELSE GCD(b, a % b)

\* the rational n / d in lowest terms with a positive denominator
Rat(n, d) ==
    LET s == IF d < 0 THEN -1 ELSE 1
        g == GCD(Abs(n), Abs(d))
    IN  <<(s * n) \div g, (s * d) \div g>>

R(n) == <<n, 1>>

RPlus(a, b)  == Rat(a[1] * b[2] + b[1] * a[2], a[2] * b[2])
RMinus(a, b) == Rat(a[1] * b[2] - b[1] * a[2], a[2] * b[2])
RTimes(a, b) == Rat(a[1] * b[1], a[2] * b[2])
RDiv(a, b)   == Rat(a[1] * b[2], a[2] * b[1])
RLess(a, b)  == a[1] * b[2] < b[1] * a[2]
RLeq(a, b)   == a[1] * b[2] <= b[1] * a[2]
RMax(a, b)   == IF RLess(a, b) THEN b ELSE a

\* Math.ceil in the place of Math.round (for non-negative a)
MathCeil(a) == (a[1] + a[2] - 1) \div a[2]

\* Math.round: the nearest integer, halves rounded up
MathRound(a) == (2 * a[1] + a[2]) \div (2 * a[2])

\* ------------------------------------------------------------------------
\* Room geometry (lib/room-geometry.ts)
\* ------------------------------------------------------------------------

TARGET_TILE_PX == 52

VP == [x |-> R(50), y |-> R(50)]

WallIds == {"back", "left", "right", "ceiling", "floor"}

snapToEvenNoBump(n, min) ==
    LET snapped == MathRound(n)
    IN  IF snapped > min THEN snapped ELSE min

snapToEven(n, min) ==
    LET snapped == MathRound(n)
        even    == IF snapped % 2 = 0 THEN snapped ELSE snapped + 1
    IN  IF even > min THEN even ELSE min

\* computeGeometry with y1 taken from the top of the seed height instead of
\* the snapped height
computeGeometrySeedTop(vw, vh) ==
    LET SEED_W      == Rat(44, 100)
        SEED_H      == Rat(56, 100)
        bwApproxPxW == RTimes(SEED_W, R(vw))
        bwApproxPxH == RTimes(SEED_H, R(vh))
        cols        == snapToEven(RDiv(bwApproxPxW, R(TARGET_TILE_PX)), 2)
        tilePx      == RDiv(bwApproxPxW, R(cols))
        rows        == snapToEven(RDiv(bwApproxPxH, tilePx), 2)
        bwPxW       == RTimes(R(cols), tilePx)
        bwPxH       == RTimes(R(rows), tilePx)
        bwVbW       == RTimes(RDiv(bwPxW, R(vw)), R(100))
        bwVbH       == RTimes(RDiv(bwPxH, R(vh)), R(100))
    IN  [ BW     |-> [ x1 |-> RMinus(R(50), RDiv(bwVbW, R(2))),
                       y1 |-> RMinus(R(50), RDiv(RTimes(SEED_H, R(100)), R(2))),
                       x2 |-> RPlus(R(50), RDiv(bwVbW, R(2))),
                       y2 |-> RPlus(R(50), RDiv(bwVbH, R(2))) ],
          VP     |-> VP,
          cols   |-> cols,
          rows   |-> rows,
          tilePx |-> tilePx ]

\* computeGeometry with the back wall keeping the seed height after the rows
\* are snapped
computeGeometrySeedHeight(vw, vh) ==
    LET SEED_W      == Rat(44, 100)
        SEED_H      == Rat(56, 100)
        bwApproxPxW == RTimes(SEED_W, R(vw))
        bwApproxPxH == RTimes(SEED_H, R(vh))
        cols        == snapToEven(RDiv(bwApproxPxW, R(TARGET_TILE_PX)), 2)
        tilePx      == RDiv(bwApproxPxW, R(cols))
        rows        == snapToEven(RDiv(bwApproxPxH, tilePx), 2)
        bwPxW       == RTimes(R(cols), tilePx)
        bwPxH       == bwApproxPxH
        bwVbW       == RTimes(RDiv(bwPxW, R(vw)), R(100))
        bwVbH       == RTimes(RDiv(bwPxH, R(vh)), R(100))
    IN  [ BW     |-> [ x1 |-> RMinus(R(50), RDiv(bwVbW, R(2))),
                       y1 |-> RMinus(R(50), RDiv(bwVbH, R(2))),
                       x2 |-> RPlus(R(50), RDiv(bwVbW, R(2))),
                       y2 |-> RPlus(R(50), RDiv(bwVbH, R(2))) ],
          VP     |-> VP,
          cols   |-> cols,
          rows   |-> rows,
          tilePx |-> tilePx ]

\* computeGeometry with tiles of the target size instead of the size that
\* divides the seed width
computeGeometryTargetTile(vw, vh) ==
    LET SEED_W      == Rat(44, 100)
        SEED_H      == Rat(56, 100)
        bwApproxPxW == RTimes(SEED_W, R(vw))
        bwApproxPxH == RTimes(SEED_H, R(vh))
        cols        == snapToEven(RDiv(bwApproxPxW, R(TARGET_TILE_PX)), 2)
        tilePx      == R(TARGET_TILE_PX)
        rows        == snapToEven(RDiv(bwApproxPxH, tilePx), 2)
        bwPxW       == RTimes(R(cols), tilePx)
        bwPxH       == RTimes(R(rows), tilePx)
        bwVbW       == RTimes(RDiv(bwPxW, R(vw)), R(100))
        bwVbH       == RTimes(RDiv(bwPxH, R(vh)), R(100))
    IN  [ BW     |-> [ x1 |-> RMinus(R(50), RDiv(bwVbW, R(2))),
                       y1 |-> RMinus(R(50), RDiv(bwVbH, R(2))),
                       x2 |-> RPlus(R(50), RDiv(bwVbW, R(2))),
                       y2 |-> RPlus(R(50), RDiv(bwVbH, R(2))) ],
          VP     |-> VP,
          cols   |-> cols,
          rows   |-> rows,
          tilePx |-> tilePx ]

computeGeometry(vw, vh) ==
    LET SEED_W      == Rat(44, 100)
        SEED_H      == Rat(56, 100)
        bwApproxPxW == RTimes(SEED_W, R(vw))
        bwApproxPxH == RTimes(SEED_H, R(vh))
        cols        == snapToEven(RDiv(bwApproxPxW, R(TARGET_TILE_PX)), 2)
        tilePx      == RDiv(bwApproxPxW, R(cols))
        rows        == snapToEven(RDiv(bwApproxPxH, tilePx), 2)
        bwPxW       == RTimes(R(cols), tilePx)
        bwPxH       == RTimes(R(rows), tilePx)
        bwVbW       == RTimes(RDiv(bwPxW, R(vw)), R(100))
        bwVbH       == RTimes(RDiv(bwPxH, R(vh)), R(100))
    IN  [ BW     |-> [ x1 |-> RMinus(R(50), RDiv(bwVbW, R(2))),
                       y1 |-> RMinus(R(50), RDiv(bwVbH, R(2))),
                       x2 |-> RPlus(R(50), RDiv(bwVbW, R(2))),
                       y2 |-> RPlus(R(50), RDiv(bwVbH, R(2))) ],
          VP     |-> VP,
          cols   |-> cols,
          rows   |-> rows,
          tilePx |-> tilePx ]

\* edge i of poly runs from vertex j = i - 1 (cyclically) to vertex i
pointInPolygon(px, py, poly) ==
    LET n == Len(poly)
        crosses(i) ==
            LET j  == IF i = 1 THEN n ELSE i - 1
                xi == poly[i][1]
                yi == poly[i][2]
                xj == poly[j][1]
                yj == poly[j][2]
            IN  /\ RLess(py, yi) # RLess(py, yj)
                /\ RLess(px, RPlus(RDiv(RTimes(RMinus(xj, xi), RMinus(py, yi)),
                                        RMinus(yj, yi)), xi))
    IN  Cardinality({i \in 1..n : crosses(i)}) % 2 = 1

ceilingPoly(BW) == << <<R(0), R(0)>>, <<R(100), R(0)>>, <<BW.x2, BW.y1>>, <<BW.x1, BW.y1>> >>
\* floorPoly with the ceiling's corners
floorPolyCopied(BW) == << <<R(0), R(0)>>, <<R(100), R(0)>>, <<BW.x2, BW.y1>>, <<BW.x1, BW.y1>> >>
floorPoly(BW)   == << <<BW.x1, BW.y2>>, <<BW.x2, BW.y2>>, <<R(100), R(100)>>, <<R(0), R(100)>> >>
leftPoly(BW)    == << <<R(0), R(0)>>, <<BW.x1, BW.y1>>, <<BW.x1, BW.y2>>, <<R(0), R(100)>> >>

inBackRectStrict(px, py, BW) ==
    /\ RLess(BW.x1, px) /\ RLess(px, BW.x2)
    /\ RLess(BW.y1, py) /\ RLess(py, BW.y2)

inBackRect(px, py, BW) ==
    /\ RLeq(BW.x1, px) /\ RLeq(px, BW.x2)
    /\ RLeq(BW.y1, py) /\ RLeq(py, BW.y2)

wallAtPoint(px, py, BW) ==
    IF inBackRect(px, py, BW) THEN "back"
    ELSE IF pointInPolygon(px, py, ceilingPoly(BW)) THEN "ceiling"
    ELSE IF pointInPolygon(px, py, floorPoly(BW)) THEN "floor"
    ELSE IF pointInPolygon(px, py, leftPoly(BW)) THEN "left"
    ELSE "right"

\* stackIndex is the window's index in the composer's list, from 0
\* defaultWindowPos with the floor measured from the back wall's top edge
defaultWindowPosFloorFromTop(wall, BW, vw, vh, stackIndex) ==
    LET m       == R(24)
        stagger == R(stackIndex * 28)
        bwPxX1  == RTimes(RDiv(BW.x1, R(100)), R(vw))
        bwPxY1  == RTimes(RDiv(BW.y1, R(100)), R(vh))
        bwPxX2  == RTimes(RDiv(BW.x2, R(100)), R(vw))
        bwPxY2  == RTimes(RDiv(BW.y2, R(100)), R(vh))
    IN  CASE wall = "back"    -> [x |-> RPlus(RPlus(bwPxX1, m), stagger), y |-> RPlus(RPlus(bwPxY1, m), stagger)]
          [] wall = "ceiling" -> [x |-> RPlus(RPlus(bwPxX1, m), stagger), y |-> RPlus(m, stagger)]
          [] wall = "floor"   -> [x |-> RPlus(RPlus(bwPxX1, m), stagger), y |-> RPlus(RPlus(bwPxY1, m), stagger)]
          [] wall = "left"    -> [x |-> RPlus(m, stagger),                y |-> RPlus(bwPxY1, stagger)]
          [] wall = "right"   -> [x |-> RPlus(RPlus(bwPxX2, m), stagger), y |-> RPlus(bwPxY1, stagger)]

defaultWindowPos(wall, BW, vw, vh, stackIndex) ==
    LET m       == R(24)
        stagger == R(stackIndex * 28)
        bwPxX1  == RTimes(RDiv(BW.x1, R(100)), R(vw))
        bwPxY1  == RTimes(RDiv(BW.y1, R(100)), R(vh))
        bwPxX2  == RTimes(RDiv(BW.x2, R(100)), R(vw))
        bwPxY2  == RTimes(RDiv(BW.y2, R(100)), R(vh))
    IN  CASE wall = "back"    -> [x |-> RPlus(RPlus(bwPxX1, m), stagger), y |-> RPlus(RPlus(bwPxY1, m), stagger)]
          [] wall = "ceiling" -> [x |-> RPlus(RPlus(bwPxX1, m), stagger), y |-> RPlus(m, stagger)]
          [] wall = "floor"   -> [x |-> RPlus(RPlus(bwPxX1, m), stagger), y |-> RPlus(RPlus(bwPxY2, m), stagger)]
          [] wall = "left"    -> [x |-> RPlus(m, stagger),                y |-> RPlus(bwPxY1, stagger)]
          [] wall = "right"   -> [x |-> RPlus(RPlus(bwPxX2, m), stagger), y |-> RPlus(bwPxY1, stagger)]

\* lerp2: the point at fraction t of the way from a to b
lerp2(a, b, t) ==
    [ x |-> RPlus(a.x, RTimes(RMinus(b.x, a.x), t)),
      y |-> RPlus(a.y, RTimes(RMinus(b.y, a.y), t)) ]

\* a GridLine: d is the path "M mx,my L lx,ly", kept as its four numbers
\* (template literals print a number so that it reads back as the same number)
GridLine(mx, my, lx, ly, midX, midY) ==
    [ d |-> [mx |-> mx, my |-> my, lx |-> lx, ly |-> ly], midX |-> midX, midY |-> midY ]

\* buildBackWallLines with both loops started at 1 and stopped before the
\* far edge
buildBackWallLinesInterior(BW, cols, rows) ==
    LET bwW == RMinus(BW.x2, BW.x1)
        bwH == RMinus(BW.y2, BW.y1)
        vertical(i) ==
            LET x == RPlus(BW.x1, RTimes(bwW, Rat(i, cols)))
            IN  GridLine(x, BW.y1, x, BW.y2, x, R(50))
        horizontal(j) ==
            LET y == RPlus(BW.y1, RTimes(bwH, Rat(j, rows)))
            IN  GridLine(BW.x1, y, BW.x2, y, R(50), y)
    IN  [k \in 1..(cols - 1) |-> vertical(k)] \o [k \in 1..(rows - 1) |-> horizontal(k)]

buildBackWallLines(BW, cols, rows) ==
    LET bwW == RMinus(BW.x2, BW.x1)
        bwH == RMinus(BW.y2, BW.y1)
        vertical(i) ==
            LET x == RPlus(BW.x1, RTimes(bwW, Rat(i, cols)))
            IN  GridLine(x, BW.y1, x, BW.y2, x, R(50))
        horizontal(j) ==
            LET y == RPlus(BW.y1, RTimes(bwH, Rat(j, rows)))
            IN  GridLine(BW.x1, y, BW.x2, y, R(50), y)
    IN  [k \in 1..(cols + 1) |-> vertical(k - 1)] \o [k \in 1..(rows + 1) |-> horizontal(k - 1)]

buildFloorLines(BW, cols, rows) ==
    LET bwW == RMinus(BW.x2, BW.x1)
        S_TL == [x |-> R(0), y |-> R(100)]
        S_TR == [x |-> R(100), y |-> R(100)]
        BW_BL == [x |-> BW.x1, y |-> BW.y2]
        BW_BR == [x |-> BW.x2, y |-> BW.y2]
        depth(k) ==
            LET bwX == RPlus(BW.x1, RTimes(bwW, Rat(k, cols)))
                sX  == lerp2(S_TL, S_TR, Rat(k, cols)).x
            IN  GridLine(sX, R(100), bwX, BW.y2, RDiv(RPlus(sX, bwX), R(2)), RDiv(RPlus(R(100), BW.y2), R(2)))
        cross(k) ==
            LET t == Rat(k, rows)
                L == lerp2(S_TL, BW_BL, t)
                Rr == lerp2(S_TR, BW_BR, t)
            IN  GridLine(L.x, L.y, Rr.x, Rr.y,
                         RDiv(RPlus(L.x, Rr.x), R(2)), RDiv(RPlus(L.y, Rr.y), R(2)))
    IN  [k \in 1..(cols + 1) |-> depth(k - 1)] \o [k \in 1..(rows - 1) |-> cross(k)]

\* buildCeilingLines with the midY of the depth lines copied from the floor
buildCeilingLinesFloorMid(BW, cols, rows) ==
    LET bwW == RMinus(BW.x2, BW.x1)
        S_TL == [x |-> R(0), y |-> R(0)]
        S_TR == [x |-> R(100), y |-> R(0)]
        BW_TL == [x |-> BW.x1, y |-> BW.y1]
        BW_TR == [x |-> BW.x2, y |-> BW.y1]
        depth(k) ==
            LET bwX == RPlus(BW.x1, RTimes(bwW, Rat(k, cols)))
                sX  == lerp2(S_TL, S_TR, Rat(k, cols)).x
            IN  GridLine(sX, R(0), bwX, BW.y1, RDiv(RPlus(sX, bwX), R(2)), RDiv(RPlus(R(100), BW.y1), R(2)))
        cross(k) ==
            LET t == Rat(k, rows)
                L == lerp2(S_TL, BW_TL, t)
                Rr == lerp2(S_TR, BW_TR, t)
            IN  GridLine(L.x, L.y, Rr.x, Rr.y,
                         RDiv(RPlus(L.x, Rr.x), R(2)), RDiv(RPlus(L.y, Rr.y), R(2)))
    IN  [k \in 1..(cols + 1) |-> depth(k - 1)] \o [k \in 1..(rows - 1) |-> cross(k)]

buildCeilingLines(BW, cols, rows) ==
    LET bwW == RMinus(BW.x2, BW.x1)
        S_TL == [x |-> R(0), y |-> R(0)]
        S_TR == [x |-> R(100), y |-> R(0)]
        BW_TL == [x |-> BW.x1, y |-> BW.y1]
        BW_TR == [x |-> BW.x2, y |-> BW.y1]
        depth(k) ==
            LET bwX == RPlus(BW.x1, RTimes(bwW, Rat(k, cols)))
                sX  == lerp2(S_TL, S_TR, Rat(k, cols)).x
            IN  GridLine(sX, R(0), bwX, BW.y1, RDiv(RPlus(sX, bwX), R(2)), RDiv(BW.y1, R(2)))
        cross(k) ==
            LET t == Rat(k, rows)
                L == lerp2(S_TL, BW_TL, t)
                Rr == lerp2(S_TR, BW_TR, t)
            IN  GridLine(L.x, L.y, Rr.x, Rr.y,
                         RDiv(RPlus(L.x, Rr.x), R(2)), RDiv(RPlus(L.y, Rr.y), R(2)))
    IN  [k \in 1..(cols + 1) |-> depth(k - 1)] \o [k \in 1..(rows - 1) |-> cross(k)]

buildLeftLines(BW, cols, rows) ==
    LET bwH == RMinus(BW.y2, BW.y1)
        S_TL == [x |-> R(0), y |-> R(0)]
        S_BL == [x |-> R(0), y |-> R(100)]
        BW_TL == [x |-> BW.x1, y |-> BW.y1]
        BW_BL == [x |-> BW.x1, y |-> BW.y2]
        depth(k) ==
            LET bwY == RPlus(BW.y1, RTimes(bwH, Rat(k, rows)))
                sY  == lerp2(S_TL, S_BL, Rat(k, rows)).y
            IN  GridLine(R(0), sY, BW.x1, bwY, RDiv(BW.x1, R(2)), RDiv(RPlus(sY, bwY), R(2)))
        cross(k) ==
            LET t == Rat(k, cols)
                T == lerp2(S_TL, BW_TL, t)
                B == lerp2(S_BL, BW_BL, t)
            IN  GridLine(T.x, T.y, B.x, B.y,
                         RDiv(RPlus(T.x, B.x), R(2)), RDiv(RPlus(T.y, B.y), R(2)))
    IN  [k \in 1..(rows + 1) |-> depth(k - 1)] \o [k \in 1..(cols - 1) |-> cross(k)]

buildRightLines(BW, cols, rows) ==
    LET bwH == RMinus(BW.y2, BW.y1)
        S_TR == [x |-> R(100), y |-> R(0)]
        S_BR == [x |-> R(100), y |-> R(100)]
        BW_TR == [x |-> BW.x2, y |-> BW.y1]
        BW_BR == [x |-> BW.x2, y |-> BW.y2]
        depth(k) ==
            LET bwY == RPlus(BW.y1, RTimes(bwH, Rat(k, rows)))
                sY  == lerp2(S_TR, S_BR, Rat(k, rows)).y
            IN  GridLine(R(100), sY, BW.x2, bwY, RDiv(RPlus(R(100), BW.x2), R(2)), RDiv(RPlus(sY, bwY), R(2)))
        cross(k) ==
            LET t == Rat(k, cols)
                T == lerp2(S_TR, BW_TR, t)
                B == lerp2(S_BR, BW_BR, t)
            IN  GridLine(T.x, T.y, B.x, B.y,
                         RDiv(RPlus(T.x, B.x), R(2)), RDiv(RPlus(T.y, B.y), R(2)))
    IN  [k \in 1..(rows + 1) |-> depth(k - 1)] \o [k \in 1..(cols - 1) |-> cross(k)]

\* ------------------------------------------------------------------------
\* The window component (AppWindow) and the room composer (WireframeRoom)
\* ------------------------------------------------------------------------

MIN_W == 200
MIN_H == 130

ResizeEdges == {"n", "s", "e", "w", "ne", "nw", "se", "sw"}

\* eg.includes(letter)
EdgeIncludes(eg, letter) ==
    CASE letter = "n" -> eg \in {"n", "ne", "nw"}
      [] letter = "s" -> eg \in {"s", "se", "sw"}
      [] letter = "e" -> eg \in {"e", "ne", "se"}
      [] letter = "w" -> eg \in {"w", "nw", "sw"}

INITIAL_WINDOWS ==
    << [id |-> "nexus",   title |-> "Nexus",               wall |-> "back"],
       [id |-> "ace",     title |-> "App Creation Engine", wall |-> "back"],
       [id |-> "workout", title |-> "Workout AI",          wall |-> "left"] >>

WinIds == {INITIAL_WINDOWS[i].id : i \in 1..Len(INITIAL_WINDOWS)}

Max(a, b) == IF a > b THEN a ELSE b

VARIABLES
    innerW,         \* window.innerWidth
    innerH,         \* window.innerHeight
    roPending,      \* the viewport changed and the ResizeObserver has not yet reported it
    geom,           \* the composer's RoomGeometry, memoised on the observed viewport size
    isMobile,       \* useIsMobile()
    windows,        \* the composer's window list: records [id, wall]
    dragging,       \* the composer's dragging flag
    hoveredWall,    \* the composer's hovered wall, or "null"
    pos,            \* per window: the motion values x, y
    size,           \* per window: [w, h]
    isDragging,     \* per window
    isActive,       \* per window
    isResizing,     \* per window
    resizeEdgeRef,  \* per window: the grabbed edge, or "null"
    resizeStartRef, \* per window: [x, y, w, h]
    dragStartRef,   \* per window: [px, py, mx, my]
    listeners,      \* the pointermove/pointerup listener pairs on window, in registration order
    calls,          \* the composer callbacks invoked by the last event, in order
    downsLeft,      \* pointer-down events still to come
    nResizes,       \* viewport changes so far
    probe,          \* the last classification asked of wallAtPoint, or NoProbe
    transitionState, \* Landing: the page's transition state
    stage,          \* Landing: the stage of the entry choreography, 0..3
    orbHovered,     \* Landing: the pointer is over the orb
    timers,         \* Landing: the pending timeouts [due, fn], in the order they were set
    activated,      \* Grid3D: the activated prop
    isAnimating,    \* Grid3D
    activationKey,  \* Grid3D
    resetTimer      \* Grid3D: ms until the pending reset timeout fires, or NoTimer

roomVars   == <<windows, dragging, hoveredWall>>
windowVars == <<pos, size, isDragging, isActive, isResizing, resizeEdgeRef,
                resizeStartRef, dragStartRef, listeners>>
viewVars   == <<innerW, innerH, roPending, geom, nResizes>>

landingVars == <<transitionState, stage, orbHovered, timers>>
gridVars    == <<activated, isAnimating, activationKey, resetTimer>>
pageVars    == <<landingVars, gridVars>>

roomAllVars == <<innerW, innerH, roPending, geom, isMobile, windows, dragging, hoveredWall,
                 pos, size, isDragging, isActive, isResizing, resizeEdgeRef, resizeStartRef,
                 dragStartRef, listeners, calls, downsLeft, nResizes, probe>>

vars == <<roomAllVars, landingVars, gridVars>>

NoProbe == [px |-> R(0), py |-> R(0), wall |-> "none"]

\* the state after the first render with viewport vw x vh
Mounted(vw, vh, downs) ==
    /\ innerW = vw
    /\ innerH = vh
    /\ roPending = FALSE
    /\ geom = computeGeometry(vw, vh)
    /\ isMobile = FALSE
    /\ windows = INITIAL_WINDOWS
    /\ dragging = FALSE
    /\ hoveredWall = "null"
    /\ pos = [id \in WinIds |->
                LET i == CHOOSE k \in 1..Len(INITIAL_WINDOWS) : INITIAL_WINDOWS[k].id = id
                IN  defaultWindowPos(INITIAL_WINDOWS[i].wall, computeGeometry(vw, vh).BW,
                                     vw, vh, i - 1)]
    /\ size = [id \in WinIds |-> [w |-> 260, h |-> 180]]
    /\ isDragging = [id \in WinIds |-> FALSE]
    /\ isActive = [id \in WinIds |-> FALSE]
    /\ isResizing = [id \in WinIds |-> FALSE]
    /\ resizeEdgeRef = [id \in WinIds |-> "null"]
    /\ resizeStartRef = [id \in WinIds |-> [x |-> 0, y |-> 0, w |-> 0, h |-> 0]]
    /\ dragStartRef = [id \in WinIds |-> [px |-> 0, py |-> 0, mx |-> R(0), my |-> R(0)]]
    /\ listeners = <<>>
    /\ calls = <<>>
    /\ downsLeft = downs
    /\ nResizes = 0
    /\ probe = NoProbe

\* ------------------------------------------------------------------------
\* The landing page and the grid animation
\* ------------------------------------------------------------------------

TransitionStates == {"landing", "orb-expanding", "portal", "dashboard", "returning"}

\* the delays passed to setTimeout, in ms
STAGE1_MS    == 100
STAGE2_MS    == 800
STAGE3_MS    == 1400
PORTAL_MS    == 650
DASHBOARD_MS == 950
RETURN_MS    == 950
RESET_MS     == 1600

\* time advances in steps that reach every deadline exactly
TickMs == GCD(GCD(GCD(STAGE1_MS, STAGE2_MS), GCD(STAGE3_MS, PORTAL_MS)),
              GCD(GCD(DASHBOARD_MS, RETURN_MS), RESET_MS))

NoTimer == -1

\* setTimeout(fn, ms): the timeout joins the pending ones
setTimeout(ts, fn, ms) == Append(ts, [due |-> ms, fn |-> fn])

\* Landing after its first render and its mount effect
LandingMounted ==
    /\ transitionState = "landing"
    /\ stage = 0
    /\ orbHovered = FALSE
    /\ timers = setTimeout(setTimeout(setTimeout(<<>>, "stage1", STAGE1_MS),
                                      "stage2", STAGE2_MS), "stage3", STAGE3_MS)

\* Grid3D after its first render; the effect finds activated false
Grid3DMounted ==
    /\ activated = FALSE
    /\ isAnimating = FALSE
    /\ activationKey = 0
    /\ resetTimer = NoTimer

PageMounted == LandingMounted /\ Grid3DMounted

\* handleOrbClick without its guard
handleOrbClickUnguarded ==
    /\ transitionState' = "orb-expanding"
    /\ timers' = setTimeout(setTimeout(timers, "portal", PORTAL_MS), "dashboard", DASHBOARD_MS)
    /\ UNCHANGED <<stage, orbHovered, gridVars, roomAllVars>>

\* handleOrbClick scheduling the portal step only
handleOrbClickPortalOnly ==
    /\ IF transitionState # "landing"
       THEN UNCHANGED <<transitionState, timers>>
       ELSE /\ transitionState' = "orb-expanding"
            /\ timers' = setTimeout(timers, "portal", PORTAL_MS)
    /\ UNCHANGED <<stage, orbHovered, gridVars, roomAllVars>>

handleOrbClick ==
    /\ IF transitionState # "landing"
       THEN UNCHANGED <<transitionState, timers>>
       ELSE /\ transitionState' = "orb-expanding"
            /\ timers' = setTimeout(setTimeout(timers, "portal", PORTAL_MS),
                                    "dashboard", DASHBOARD_MS)
    /\ UNCHANGED <<stage, orbHovered, gridVars, roomAllVars>>

handleBack ==
    /\ IF transitionState # "dashboard"
       THEN UNCHANGED <<transitionState, timers>>
       ELSE /\ transitionState' = "returning"
            /\ timers' = setTimeout(timers, "landing", RETURN_MS)
    /\ UNCHANGED <<stage, orbHovered, gridVars, roomAllVars>>

\* onHoverStart / onHoverEnd of the orb
OrbHover(b) ==
    /\ orbHovered # b
    /\ orbHovered' = b
    /\ UNCHANGED <<transitionState, stage, timers, gridVars, roomAllVars>>

RemoveAt(s, k) == [i \in 1..(Len(s) - 1) |-> IF i < k THEN s[i] ELSE s[i + 1]]

\* the expired timeout that was set first runs its callback
LandingTimerFire ==
    /\ \E k \in 1..Len(timers) :
        /\ timers[k].due = 0
        /\ \A j \in 1..(k - 1) : timers[j].due # 0
        /\ timers' = RemoveAt(timers, k)
        /\ IF timers[k].fn \in {"portal", "dashboard", "landing"}
           THEN transitionState' = timers[k].fn /\ stage' = stage
           ELSE /\ stage' = CASE timers[k].fn = "stage1" -> 1
                              [] timers[k].fn = "stage2" -> 2
                              [] OTHER -> 3
                /\ transitionState' = transitionState
    /\ UNCHANGED <<orbHovered, gridVars, roomAllVars>>

\* TickMs pass while no pending timeout has expired
LandingTick ==
    /\ timers # <<>>
    /\ \A k \in 1..Len(timers) : timers[k].due > 0
    /\ timers' = [k \in 1..Len(timers) |-> [timers[k] EXCEPT !.due = @ - TickMs]]
    /\ UNCHANGED <<transitionState, stage, orbHovered, gridVars, roomAllVars>>

LandingInit == Mounted(1200, 800, 0) /\ PageMounted

LandingNext ==
    \/ handleOrbClick
    \/ handleBack
    \/ \E b \in BOOLEAN : OrbHover(b)
    \/ LandingTimerFire
    \/ LandingTick

LandingSpec == LandingInit /\ [][LandingNext]_vars

\* scheduled timeouts eventually fire: time passes and expired callbacks run
LandingLiveSpec ==
    LandingSpec /\ WF_vars(LandingTick) /\ WF_vars(LandingTimerFire)

\* the parent renders Grid3D with activated = b: the cleanup of the last effect
\* run clears its timeout, then the effect runs again
SetActivated(b) ==
    /\ activated # b
    /\ activated' = b
    /\ IF b /\ ~isAnimating
       THEN /\ activationKey < MaxActivations
            /\ activationKey' = activationKey + 1
            /\ isAnimating' = TRUE
            /\ resetTimer' = RESET_MS
       ELSE /\ resetTimer' = NoTimer
            /\ UNCHANGED <<activationKey, isAnimating>>
    /\ UNCHANGED <<landingVars, roomAllVars>>

\* the reset timeout fires
GridTimerFire ==
    /\ resetTimer = 0
    /\ isAnimating' = FALSE
    /\ resetTimer' = NoTimer
    /\ UNCHANGED <<activated, activationKey, landingVars, roomAllVars>>

GridTick ==
    /\ resetTimer > 0
    /\ resetTimer' = resetTimer - TickMs
    /\ UNCHANGED <<activated, isAnimating, activationKey, landingVars, roomAllVars>>

GridInit == Mounted(1200, 800, 0) /\ PageMounted

GridNext ==
    \/ \E b \in BOOLEAN : SetActivated(b)
    \/ GridTimerFire
    \/ GridTick

GridSpec == GridInit /\ [][GridNext]_vars

\* the scheduled timeout eventually fires unless it is cleared
GridLiveSpec == GridSpec /\ WF_vars(GridTick) /\ WF_vars(GridTimerFire)

\* ------------------------------------------------------------------------
\* The geometry functions applied to sampled inputs
\* ------------------------------------------------------------------------

ViewWidths  == {50 * k : k \in 1..MaxViewSteps}
ViewHeights == {100 * k : k \in 1..(MaxViewSteps \div 2)}

ProbeCoords == {Rat(100 * k, ProbeSteps) : k \in 0..ProbeSteps}

InSquare(c) == RLeq(R(0), c) /\ RLeq(c, R(100))

ProbeXs == ProbeCoords \cup {c \in {geom.BW.x1, geom.BW.x2} : InSquare(c)}
ProbeYs == ProbeCoords \cup {c \in {geom.BW.y1, geom.BW.y2} : InSquare(c)}

GeomInit == \E vw \in ViewWidths, vh \in ViewHeights : Mounted(vw, vh, 0) /\ PageMounted

Classify(px, py) ==
    /\ probe = NoProbe
    /\ probe' = [px |-> px, py |-> py, wall |-> wallAtPoint(px, py, geom.BW)]
    /\ UNCHANGED <<viewVars, isMobile, roomVars, windowVars, calls, downsLeft, pageVars>>

GeomNext == \E px \in ProbeXs, py \in ProbeYs : Classify(px, py)

GeomSpec == GeomInit /\ [][GeomNext]_vars

\* ------------------------------------------------------------------------
\* Pointer events, viewport changes and their handlers
\* ------------------------------------------------------------------------

\* client coordinates of the sampled pointer events
Pointers == { <<500, 300>>, <<100, 300>>, <<1100, 300>>, <<600, 40>>, <<600, 720>> }

Buttons == {0, 2}

Viewports == { <<1200, 800>>, <<1600, 900>>, <<1200, 1300>> }

\* the wall under client point (cx, cy) in a viewport of vw x vh
wallAtClientIn(vw, vh, cx, cy) ==
    LET BW  == computeGeometry(vw, vh).BW
        vbx == RTimes(RDiv(R(cx), R(vw)), R(100))
        vby == RTimes(RDiv(R(cy), R(vh)), R(100))
    IN  wallAtPoint(vbx, vby, BW)

\* wallAtClientIn tabulated over the sampled viewports and pointer positions
WallTable == [v \in Viewports |-> [p \in Pointers |-> wallAtClientIn(v[1], v[2], p[1], p[2])]]

\* wallAtClient with the back wall of the composer's memoised geometry
wallAtClientMemo(cx, cy) ==
    wallAtPoint(RTimes(RDiv(R(cx), R(innerW)), R(100)),
                RTimes(RDiv(R(cy), R(innerH)), R(100)), geom.BW)

\* the wall under client point (cx, cy), from the viewport as it is now
wallAtClient(cx, cy) == WallTable[<<innerW, innerH>>][<<cx, cy>>]

\* (cx, cy) lies in the box the window element is laid out in
Over(id, cx, cy) ==
    LET width == IF isMobile THEN (90 * innerW) \div 100 ELSE size[id].w
    IN  /\ RLeq(pos[id].x, R(cx))
        /\ RLeq(R(cx - width), pos[id].x)
        /\ RLeq(pos[id].y, R(cy))
        /\ isMobile \/ RLeq(R(cy - size[id].h), pos[id].y)

\* moveWindow with the wall left out of the rebuilt entry
moveWindowKeepWall(prev, id, targetWall) ==
    [i \in 1..Len(prev) |-> IF prev[i].id = id THEN [prev[i] EXCEPT !.id = id] ELSE prev[i]]

\* moveWindow with the matching entry rebuilt from id and wall alone
moveWindowNoSpread(prev, id, targetWall) ==
    [i \in 1..Len(prev) |->
        IF prev[i].id = id THEN [id |-> id, wall |-> targetWall] ELSE prev[i]]

moveWindow(prev, id, targetWall) ==
    [i \in 1..Len(prev) |->
        IF prev[i].id = id THEN [prev[i] EXCEPT !.wall = targetWall] ELSE prev[i]]

DragWins   == {listeners[i].win : i \in {k \in 1..Len(listeners) : listeners[k].kind = "drag"}}
ResizeWins == {listeners[i].win : i \in {k \in 1..Len(listeners) : listeners[k].kind = "resize"}}

\* HeaderPointerDown without the test of isMobile
HeaderPointerDownOnMobile(id, button, cx, cy) ==
    /\ Over(id, cx, cy)
    /\ downsLeft > 0
    /\ downsLeft' = downsLeft - 1
    /\ isActive' = [isActive EXCEPT ![id] = TRUE]
    /\ IF button # 0
       THEN /\ calls' = <<>>
            /\ UNCHANGED <<isDragging, dragging, dragStartRef, listeners>>
       ELSE /\ isDragging' = [isDragging EXCEPT ![id] = TRUE]
            /\ dragging' = TRUE
            /\ calls' = << [cb |-> "onDragStart", win |-> id, wall |-> "null"] >>
            /\ dragStartRef' = [dragStartRef EXCEPT
                                  ![id] = [px |-> cx, py |-> cy, mx |-> pos[id].x, my |-> pos[id].y]]
            /\ listeners' = Append(listeners, [kind |-> "drag", win |-> id])
    /\ UNCHANGED <<viewVars, isMobile, windows, hoveredWall, pos, size, isResizing,
                   resizeEdgeRef, resizeStartRef, probe, pageVars>>

\* HeaderPointerDown without the test of e.button
HeaderPointerDownAnyButton(id, button, cx, cy) ==
    /\ Over(id, cx, cy)
    /\ downsLeft > 0
    /\ downsLeft' = downsLeft - 1
    /\ isActive' = [isActive EXCEPT ![id] = TRUE]
    /\ IF isMobile
       THEN /\ calls' = <<>>
            /\ UNCHANGED <<isDragging, dragging, dragStartRef, listeners>>
       ELSE /\ isDragging' = [isDragging EXCEPT ![id] = TRUE]
            /\ dragging' = TRUE
            /\ calls' = << [cb |-> "onDragStart", win |-> id, wall |-> "null"] >>
            /\ dragStartRef' = [dragStartRef EXCEPT
                                  ![id] = [px |-> cx, py |-> cy, mx |-> pos[id].x, my |-> pos[id].y]]
            /\ listeners' = Append(listeners, [kind |-> "drag", win |-> id])
    /\ UNCHANGED <<viewVars, isMobile, windows, hoveredWall, pos, size, isResizing,
                   resizeEdgeRef, resizeStartRef, probe, pageVars>>

\* pointer-down on the header of window id; the event then bubbles to the
\* window element's own onPointerDown
HeaderPointerDown(id, button, cx, cy) ==
    /\ Over(id, cx, cy)
    /\ downsLeft > 0
    /\ downsLeft' = downsLeft - 1
    /\ isActive' = [isActive EXCEPT ![id] = TRUE]
    /\ IF isMobile \/ button # 0
       THEN /\ calls' = <<>>
            /\ UNCHANGED <<isDragging, dragging, dragStartRef, listeners>>
       ELSE /\ isDragging' = [isDragging EXCEPT ![id] = TRUE]
            /\ dragging' = TRUE
            /\ calls' = << [cb |-> "onDragStart", win |-> id, wall |-> "null"] >>
            /\ dragStartRef' = [dragStartRef EXCEPT
                                  ![id] = [px |-> cx, py |-> cy, mx |-> pos[id].x, my |-> pos[id].y]]
            /\ listeners' = Append(listeners, [kind |-> "drag", win |-> id])
    /\ UNCHANGED <<viewVars, isMobile, windows, hoveredWall, pos, size, isResizing,
                   resizeEdgeRef, resizeStartRef, probe, pageVars>>

\* pointer-down on the resize handle edge of window id (handles are rendered
\* only when not mobile); a refused event bubbles to the window element
ResizePointerDown(id, edge, button, cx, cy) ==
    /\ ~isMobile
    /\ Over(id, cx, cy)
    /\ downsLeft > 0
    /\ downsLeft' = downsLeft - 1
    /\ isActive' = [isActive EXCEPT ![id] = TRUE]
    /\ calls' = <<>>
    /\ IF button # 0
       THEN UNCHANGED <<isResizing, resizeEdgeRef, resizeStartRef, listeners>>
       ELSE /\ isResizing' = [isResizing EXCEPT ![id] = TRUE]
            /\ resizeEdgeRef' = [resizeEdgeRef EXCEPT ![id] = edge]
            /\ resizeStartRef' = [resizeStartRef EXCEPT
                                    ![id] = [x |-> cx, y |-> cy, w |-> size[id].w, h |-> size[id].h]]
            /\ listeners' = Append(listeners, [kind |-> "resize", win |-> id])
    /\ UNCHANGED <<viewVars, isMobile, roomVars, pos, size, isDragging, dragStartRef, probe, pageVars>>

\* pointer-down on the content of window id: only the element's onPointerDown
BodyPointerDown(id, cx, cy) ==
    /\ Over(id, cx, cy)
    /\ downsLeft > 0
    /\ downsLeft' = downsLeft - 1
    /\ isActive' = [isActive EXCEPT ![id] = TRUE]
    /\ calls' = <<>>
    /\ UNCHANGED <<viewVars, isMobile, roomVars, pos, size, isDragging, isResizing,
                   resizeEdgeRef, resizeStartRef, dragStartRef, listeners, probe, pageVars>>

\* resizedSize with the pointer coordinates taken for the delta
resizedSizeNoOrigin(id, cx, cy) ==
    LET dx == cx
        dy == cy
        eg == resizeEdgeRef[id]
        w1 == IF EdgeIncludes(eg, "e") THEN Max(MIN_W, resizeStartRef[id].w + dx) ELSE size[id].w
        w2 == IF EdgeIncludes(eg, "w") THEN Max(MIN_W, resizeStartRef[id].w - dx) ELSE w1
        h1 == IF EdgeIncludes(eg, "s") THEN Max(MIN_H, resizeStartRef[id].h + dy) ELSE size[id].h
        h2 == IF EdgeIncludes(eg, "n") THEN Max(MIN_H, resizeStartRef[id].h - dy) ELSE h1
    IN  [w |-> w2, h |-> h2]

\* resizedSize without Math.max
resizedSizeNoClamp(id, cx, cy) ==
    LET dx == cx - resizeStartRef[id].x
        dy == cy - resizeStartRef[id].y
        eg == resizeEdgeRef[id]
        w1 == IF EdgeIncludes(eg, "e") THEN resizeStartRef[id].w + dx ELSE size[id].w
        w2 == IF EdgeIncludes(eg, "w") THEN resizeStartRef[id].w - dx ELSE w1
        h1 == IF EdgeIncludes(eg, "s") THEN resizeStartRef[id].h + dy ELSE size[id].h
        h2 == IF EdgeIncludes(eg, "n") THEN resizeStartRef[id].h - dy ELSE h1
    IN  [w |-> w2, h |-> h2]

\* resizedSize with the w and n edges given the sign of e and s
resizedSizeWestGrowsRight(id, cx, cy) ==
    LET dx == cx - resizeStartRef[id].x
        dy == cy - resizeStartRef[id].y
        eg == resizeEdgeRef[id]
        w1 == IF EdgeIncludes(eg, "e") \/ EdgeIncludes(eg, "w")
              THEN Max(MIN_W, resizeStartRef[id].w + dx) ELSE size[id].w
        h1 == IF EdgeIncludes(eg, "s") \/ EdgeIncludes(eg, "n")
              THEN Max(MIN_H, resizeStartRef[id].h + dy) ELSE size[id].h
    IN  [w |-> w1, h |-> h1]

\* resizedSize with the delta added to the size of the previous render
resizedSizeAccumulating(id, cx, cy) ==
    LET dx == cx - resizeStartRef[id].x
        dy == cy - resizeStartRef[id].y
        eg == resizeEdgeRef[id]
        w1 == IF EdgeIncludes(eg, "e") THEN Max(MIN_W, size[id].w + dx) ELSE size[id].w
        w2 == IF EdgeIncludes(eg, "w") THEN Max(MIN_W, size[id].w - dx) ELSE w1
        h1 == IF EdgeIncludes(eg, "s") THEN Max(MIN_H, size[id].h + dy) ELSE size[id].h
        h2 == IF EdgeIncludes(eg, "n") THEN Max(MIN_H, size[id].h - dy) ELSE h1
    IN  [w |-> w2, h |-> h2]

\* the size a resize listener of window id sets on a pointer-move to (cx, cy)
resizedSize(id, cx, cy) ==
    LET dx == cx - resizeStartRef[id].x
        dy == cy - resizeStartRef[id].y
        eg == resizeEdgeRef[id]
        w1 == IF EdgeIncludes(eg, "e") THEN Max(MIN_W, resizeStartRef[id].w + dx) ELSE size[id].w
        w2 == IF EdgeIncludes(eg, "w") THEN Max(MIN_W, resizeStartRef[id].w - dx) ELSE w1
        h1 == IF EdgeIncludes(eg, "s") THEN Max(MIN_H, resizeStartRef[id].h + dy) ELSE size[id].h
        h2 == IF EdgeIncludes(eg, "n") THEN Max(MIN_H, resizeStartRef[id].h - dy) ELSE h1
    IN  [w |-> w2, h |-> h2]

\* draggedPos kept inside the viewport
draggedPosClamped(id, cx, cy) ==
    LET nx == RMinus(RPlus(dragStartRef[id].mx, R(cx)), R(dragStartRef[id].px))
        ny == RMinus(RPlus(dragStartRef[id].my, R(cy)), R(dragStartRef[id].py))
        hx == R(innerW - size[id].w)
        hy == R(innerH - size[id].h)
    IN  [ x |-> RMax(R(0), IF RLess(hx, nx) THEN hx ELSE nx),
          y |-> RMax(R(0), IF RLess(hy, ny) THEN hy ELSE ny) ]

\* the position a drag listener of window id sets on a pointer-move to (cx, cy)
draggedPos(id, cx, cy) ==
    [ x |-> RMinus(RPlus(dragStartRef[id].mx, R(cx)), R(dragStartRef[id].px)),
      y |-> RMinus(RPlus(dragStartRef[id].my, R(cy)), R(dragStartRef[id].py)) ]

RECURSIVE MoveCalls(_, _)
MoveCalls(ls, wall) ==
    IF ls = <<>> THEN <<>>
    ELSE (IF Head(ls).kind = "drag"
          THEN << [cb |-> "onHoverWall", win |-> Head(ls).win, wall |-> wall] >>
          ELSE <<>>) \o MoveCalls(Tail(ls), wall)

\* PointerMove with the store reassigned to the hovered wall on every move
PointerMoveReassigns(cx, cy) ==
    /\ listeners # <<>>
    /\ UNCHANGED <<downsLeft, listeners, viewVars, isMobile, dragging, isDragging,
                   isActive, isResizing, resizeEdgeRef, resizeStartRef, dragStartRef, probe, pageVars>>
    /\ pos' = [id \in WinIds |-> IF id \in DragWins THEN draggedPos(id, cx, cy) ELSE pos[id]]
    /\ hoveredWall' = IF DragWins # {} THEN wallAtClient(cx, cy) ELSE hoveredWall
    /\ size' = [id \in WinIds |-> IF id \in ResizeWins THEN resizedSize(id, cx, cy) ELSE size[id]]
    /\ calls' = MoveCalls(listeners, wallAtClient(cx, cy))
    /\ windows' = [i \in 1..Len(windows) |->
                     IF windows[i].id \in DragWins
                     THEN [windows[i] EXCEPT !.wall = wallAtClient(cx, cy)] ELSE windows[i]]

\* PointerMove with a resize by a w or n edge also moving the window's origin
\* by the pointer's displacement
PointerMoveResizeShiftsOrigin(cx, cy) ==
    /\ listeners # <<>>
    /\ UNCHANGED <<downsLeft, listeners, viewVars, isMobile, windows, dragging, isDragging,
                   isActive, isResizing, resizeEdgeRef, resizeStartRef, dragStartRef, probe, pageVars>>
    /\ hoveredWall' = IF DragWins # {} THEN wallAtClient(cx, cy) ELSE hoveredWall
    /\ pos' = [id \in WinIds |->
                 IF id \in DragWins THEN draggedPos(id, cx, cy)
                 ELSE IF id \in ResizeWins
                 THEN [ x |-> IF EdgeIncludes(resizeEdgeRef[id], "w")
                              THEN RPlus(pos[id].x, R(cx - resizeStartRef[id].x)) ELSE pos[id].x,
                        y |-> IF EdgeIncludes(resizeEdgeRef[id], "n")
                              THEN RPlus(pos[id].y, R(cy - resizeStartRef[id].y)) ELSE pos[id].y ]
                 ELSE pos[id]]
    /\ size' = [id \in WinIds |-> IF id \in ResizeWins THEN resizedSize(id, cx, cy) ELSE size[id]]
    /\ calls' = MoveCalls(listeners, wallAtClient(cx, cy))

\* a pointermove on window: every registered onMove runs, in registration order
PointerMove(cx, cy) ==
    /\ listeners # <<>>
    /\ UNCHANGED <<downsLeft, listeners, viewVars, isMobile, windows, dragging, isDragging,
                   isActive, isResizing, resizeEdgeRef, resizeStartRef, dragStartRef, probe, pageVars>>
    /\ hoveredWall' = IF DragWins # {} THEN wallAtClient(cx, cy) ELSE hoveredWall
    /\ pos' = [id \in WinIds |-> IF id \in DragWins THEN draggedPos(id, cx, cy) ELSE pos[id]]
    /\ size' = [id \in WinIds |-> IF id \in ResizeWins THEN resizedSize(id, cx, cy) ELSE size[id]]
    /\ calls' = MoveCalls(listeners, wallAtClient(cx, cy))

\* UpCalls with onDragEnd invoked before the move request
RECURSIVE UpCallsEndFirst(_, _)
UpCallsEndFirst(ls, wall) ==
    IF ls = <<>> THEN <<>>
    ELSE (IF Head(ls).kind = "drag"
          THEN << [cb |-> "onDragEnd",     win |-> Head(ls).win, wall |-> "null"],
                  [cb |-> "onMoveRequest", win |-> Head(ls).win, wall |-> wall],
                  [cb |-> "onHoverWall",   win |-> Head(ls).win, wall |-> "null"] >>
          ELSE <<>>) \o UpCallsEndFirst(Tail(ls), wall)

RECURSIVE UpCalls(_, _)
UpCalls(ls, wall) ==
    IF ls = <<>> THEN <<>>
    ELSE (IF Head(ls).kind = "drag"
          THEN << [cb |-> "onMoveRequest", win |-> Head(ls).win, wall |-> wall],
                  [cb |-> "onHoverWall",   win |-> Head(ls).win, wall |-> "null"],
                  [cb |-> "onDragEnd",     win |-> Head(ls).win, wall |-> "null"] >>
          ELSE <<>>) \o UpCalls(Tail(ls), wall)

RECURSIVE MoveAll(_, _, _)
MoveAll(prev, ls, wall) ==
    IF ls = <<>> THEN prev
    ELSE MoveAll(IF Head(ls).kind = "drag" THEN moveWindow(prev, Head(ls).win, wall) ELSE prev,
                 Tail(ls), wall)

\* the window element's onPointerUp, with the flags of the render it closes over
elementPointerUp(id) ==
    IF ~isDragging[id] /\ ~isResizing[id] THEN [isActive EXCEPT ![id] = FALSE] ELSE isActive

\* PointerUp with the onUp listeners left registered
PointerUpKeepsListeners(cx, cy, target) ==
    /\ target \in WinIds => (Over(target, cx, cy) \/ isResizing[target])
    /\ listeners # <<>> \/ target \in WinIds
    /\ UNCHANGED <<downsLeft, viewVars, isMobile, pos, size, resizeEdgeRef, resizeStartRef,
                   dragStartRef, probe, listeners, pageVars>>
    /\ isActive' = IF target \in WinIds THEN elementPointerUp(target) ELSE isActive
    /\ isDragging' = [id \in WinIds |-> IF id \in DragWins THEN FALSE ELSE isDragging[id]]
    /\ isResizing' = [id \in WinIds |-> IF id \in ResizeWins THEN FALSE ELSE isResizing[id]]
    /\ dragging' = IF DragWins # {} THEN FALSE ELSE dragging
    /\ hoveredWall' = IF DragWins # {} THEN "null" ELSE hoveredWall
    /\ windows' = MoveAll(windows, listeners, wallAtClient(cx, cy))
    /\ calls' = UpCalls(listeners, wallAtClient(cx, cy))

\* a pointerup at (cx, cy) whose target lies in window target (or in none):
\* first the element's onPointerUp, then every registered onUp on window
PointerUp(cx, cy, target) ==
    /\ target \in WinIds => (Over(target, cx, cy) \/ isResizing[target])
    /\ listeners # <<>> \/ target \in WinIds
    /\ UNCHANGED <<downsLeft, viewVars, isMobile, pos, size, resizeEdgeRef, resizeStartRef,
                   dragStartRef, probe, pageVars>>
    /\ listeners' = <<>>
    /\ isActive' = IF target \in WinIds THEN elementPointerUp(target) ELSE isActive
    /\ isDragging' = [id \in WinIds |-> IF id \in DragWins THEN FALSE ELSE isDragging[id]]
    /\ isResizing' = [id \in WinIds |-> IF id \in ResizeWins THEN FALSE ELSE isResizing[id]]
    /\ dragging' = IF DragWins # {} THEN FALSE ELSE dragging
    /\ hoveredWall' = IF DragWins # {} THEN "null" ELSE hoveredWall
    /\ windows' = MoveAll(windows, listeners, wallAtClient(cx, cy))
    /\ calls' = UpCalls(listeners, wallAtClient(cx, cy))

\* the browser window is resized; the ResizeObserver reports it later
ViewportResize(vw, vh) ==
    /\ nResizes < MaxResizes
    /\ <<vw, vh>> # <<innerW, innerH>>
    /\ innerW' = vw
    /\ innerH' = vh
    /\ roPending' = TRUE
    /\ nResizes' = nResizes + 1
    /\ calls' = <<>>
    /\ UNCHANGED <<geom, isMobile, roomVars, windowVars, downsLeft, probe, pageVars>>

\* ResizeObserved with every window put back where its wall's default
\* position is in the new geometry
ResizeObservedRelayout ==
    /\ roPending
    /\ roPending' = FALSE
    /\ geom' = computeGeometry(innerW, innerH)
    /\ calls' = <<>>
    /\ pos' = [id \in WinIds |->
                 LET i == CHOOSE k \in 1..Len(windows) : windows[k].id = id
                 IN  defaultWindowPos(windows[i].wall, computeGeometry(innerW, innerH).BW,
                                      innerW, innerH, i - 1)]
    /\ UNCHANGED <<innerW, innerH, nResizes, isMobile, roomVars, size, isDragging, isActive,
                   isResizing, resizeEdgeRef, resizeStartRef, dragStartRef, listeners,
                   downsLeft, probe, pageVars>>

\* ResizeObserved with the geometry memo not recomputed
ResizeObservedStaleMemo ==
    /\ roPending
    /\ roPending' = FALSE
    /\ calls' = <<>>
    /\ UNCHANGED <<geom, innerW, innerH, nResizes, isMobile, roomVars, windowVars, downsLeft,
                   probe, pageVars>>

\* the ResizeObserver callback of useWindowSize, and the render it causes
ResizeObserved ==
    /\ roPending
    /\ roPending' = FALSE
    /\ geom' = computeGeometry(innerW, innerH)
    /\ calls' = <<>>
    /\ UNCHANGED <<innerW, innerH, nResizes, isMobile, roomVars, windowVars, downsLeft, probe, pageVars>>

\* useIsMobile() changes its answer
SetMobile(b) ==
    /\ isMobile # b
    /\ isMobile' = b
    /\ calls' = <<>>
    /\ UNCHANGED <<viewVars, roomVars, windowVars, downsLeft, probe, pageVars>>

\* WallPointerEnter with the handler on the overlay in every render
WallPointerEnterAlways(w) ==
    /\ hoveredWall' = w
    /\ calls' = <<>>
    /\ UNCHANGED <<viewVars, isMobile, windows, dragging, windowVars, downsLeft, probe, pageVars>>

\* a pointer enters the overlay of wall w; the overlays carry the handler only
\* in a render with dragging set and not mobile
WallPointerEnter(w) ==
    /\ dragging /\ ~isMobile
    /\ hoveredWall' = w
    /\ calls' = <<>>
    /\ UNCHANGED <<viewVars, isMobile, windows, dragging, windowVars, downsLeft, probe, pageVars>>

\* a pointer leaves the overlay of a wall
WallPointerLeave ==
    /\ dragging /\ ~isMobile
    /\ hoveredWall' = "null"
    /\ calls' = <<>>
    /\ UNCHANGED <<viewVars, isMobile, windows, dragging, windowVars, downsLeft, probe, pageVars>>

\* effectiveWall with the stored wall on mobile too
effectiveWallStored(w) == w.wall

\* the wall a window is laid out on: on mobile all windows collapse to back
effectiveWall(w) == IF isMobile THEN "back" ELSE w.wall

\* the ids of the windows laid out on wall wallId, in store order
windowsOnWall(wallId) ==
    LET onWall == SelectSeq(windows, LAMBDA w : effectiveWall(w) = wallId)
    IN  [i \in 1..Len(onWall) |-> onWall[i].id]

\* the ids of the windows in the mobile stack, which is laid over the back wall
mobileStack == IF isMobile THEN [i \in 1..Len(windows) |-> windows[i].id] ELSE <<>>

\* the pointer events
PointerNext ==
    \/ \E id \in WinIds, p \in Pointers :
          /\ Over(id, p[1], p[2])
          /\ \/ \E b \in Buttons : HeaderPointerDown(id, b, p[1], p[2])
             \/ \E e \in ResizeEdges, b \in Buttons : ResizePointerDown(id, e, b, p[1], p[2])
             \/ BodyPointerDown(id, p[1], p[2])
    \/ \E p \in Pointers : PointerMove(p[1], p[2])
    \/ \E p \in Pointers, t \in WinIds \cup {"none"} : PointerUp(p[1], p[2], t)

\* the viewport and the mobile flag change, pointers cross the wall overlays
EnvNext ==
    \/ \E v \in Viewports : ViewportResize(v[1], v[2])
    \/ ResizeObserved
    \/ \E b \in BOOLEAN : SetMobile(b)
    \/ \E w \in WallIds : WallPointerEnter(w)
    \/ WallPointerLeave

\* Pointer events on a room mounted in the 1200 x 800 viewport.
Init == Mounted(1200, 800, MaxDowns) /\ PageMounted

Next == PointerNext

Spec == Init /\ [][Next]_vars

\* Pointer events interleaved with viewport and mobile-flag changes.
EnvInit == \E v \in Viewports : Mounted(v[1], v[2], MaxEnvDowns) /\ PageMounted

EnvSpec == EnvInit /\ [][PointerNext \/ EnvNext]_vars

\* ------------------------------------------------------------------------
\* Properties of the geometry functions (checked under GeomSpec)
\* ------------------------------------------------------------------------

\* C1: for every viewport size, the cols and rows returned by computeGeometry
\* are both even and both at least 2.
C1_ColsRowsEven ==
    /\ geom.cols % 2 = 0 /\ geom.cols >= 2
    /\ geom.rows % 2 = 0 /\ geom.rows >= 2

\* C1 witness: 800 x 600, where 0.44 * 800 / 52 rounds to the odd 7 and is
\* snapped to 8 columns.
C1_Witness ==
    /\ innerW = 800 /\ innerH = 600
    /\ MathRound(RDiv(RTimes(Rat(44, 100), R(innerW)), R(TARGET_TILE_PX))) = 7
    /\ geom.cols = 8 /\ geom.rows = 8

\* C2 (as claimed): for every viewport size the back wall is an inner
\* rectangle of the normalized square, 0 <= x1 < x2 <= 100 and
\* 0 <= y1 < y2 <= 100, so that it and the four trapezoids tile the square.
C2_BackWallInner ==
    /\ RLeq(R(0), geom.BW.x1) /\ RLess(geom.BW.x1, geom.BW.x2) /\ RLeq(geom.BW.x2, R(100))
    /\ RLeq(R(0), geom.BW.y1) /\ RLess(geom.BW.y1, geom.BW.y2) /\ RLeq(geom.BW.y2, R(100))

\* C3: wallAtPoint is total on the normalized square: it returns one of the
\* five walls, and every point with x1 <= px <= x2 and y1 <= py <= y2 is back.
C3_WallAtTotal ==
    probe.wall # "none" =>
        /\ probe.wall \in WallIds
        /\ ( ( /\ RLeq(geom.BW.x1, probe.px) /\ RLeq(probe.px, geom.BW.x2)
               /\ RLeq(geom.BW.y1, probe.py) /\ RLeq(probe.py, geom.BW.y2) )
             => probe.wall = "back" )

\* C3 witness: a point on the back wall's left edge, strictly between its
\* corners, has been classified as back.
C3_Witness ==
    /\ probe.wall = "back"
    /\ probe.px = geom.BW.x1
    /\ RLess(geom.BW.y1, probe.py) /\ RLess(probe.py, geom.BW.y2)

\* ------------------------------------------------------------------------
\* Properties of the drag and resize gestures
\* ------------------------------------------------------------------------

wallOf(ws, id) == ws[CHOOSE i \in 1..Len(ws) : ws[i].id = id].wall

initialPos(id) ==
    LET i == CHOOSE k \in 1..Len(INITIAL_WINDOWS) : INITIAL_WINDOWS[k].id = id
    IN  defaultWindowPos(INITIAL_WINDOWS[i].wall, computeGeometry(1200, 800).BW, 1200, 800, i - 1)

\* the number of entries of calls that are callback cb of window id
CallCount(cs, cb, id) == Cardinality({i \in 1..Len(cs) : cs[i].cb = cb /\ cs[i].win = id})

\* C4: when a drag is released at a point the classifier (with the viewport
\* as it is at release) maps to wall B, the store then holds wall = B for the
\* dragged window, and the release changes neither its position nor its size.
C4_ReleaseReassignsWall ==
    [][ \A id \in DragWins :
          \A p \in Pointers, t \in WinIds \cup {"none"} :
            PointerUp(p[1], p[2], t) =>
              /\ wallOf(windows', id) = wallAtClientIn(innerW, innerH, p[1], p[2])
              /\ pos'[id] = pos[id]
              /\ size'[id] = size[id] ]_vars

\* C4 witness: the room was mounted at 1200 x 800 and has since been resized
\* to 1600 x 900 (not yet observed); workout, docked to left, was dragged
\* 1000 px to the right, towards a point that is over the right wall at
\* 1200 x 800 and over the back wall at 1600 x 900, and its release, the last
\* event, has docked it to the back wall.
C4_Witness ==
    /\ innerW = 1600
    /\ roPending
    /\ geom = computeGeometry(1200, 800)
    /\ wallAtClientIn(1200, 800, 1100, 300) = "right"
    /\ wallOf(windows, "workout") = "back"
    /\ ~isDragging["workout"]
    /\ pos["workout"] = [x |-> RPlus(initialPos("workout").x, R(1000)),
                         y |-> initialPos("workout").y]
    /\ CallCount(calls, "onMoveRequest", "workout") = 1

\* C5: the wall of a window does not change while its drag stays in the
\* dragging state; the store changes, and the move-request callback is
\* invoked, only in a step that processes a pointer-up (so never in a
\* pointer-move, which leaves the listeners registered).
C5_WallOnlyAtRelease ==
    [][ /\ \A id \in WinIds :
             (isDragging[id] /\ isDragging'[id]) => wallOf(windows', id) = wallOf(windows, id)
        /\ (windows' # windows \/ \E id \in WinIds : CallCount(calls', "onMoveRequest", id) > 0) =>
             /\ listeners' = <<>>
             /\ \E p \in Pointers, t \in WinIds \cup {"none"} : PointerUp(p[1], p[2], t) ]_vars

\* C5 witness: mid-drag, the last pointer-move reported a hovered wall other
\* than the wall the dragged window is docked to.
C5_Witness ==
    \E id \in WinIds :
        /\ isDragging[id]
        /\ calls # <<>>
        /\ calls[1] = [cb |-> "onHoverWall", win |-> id, wall |-> hoveredWall]
        /\ hoveredWall # wallOf(windows, id)

\* C6 (as claimed): a primary-button pointer-down on the header of a window
\* whose drag is already active is a no-op (the captured origin is kept, no
\* listener is added, drag-start is not invoked again), and a pointer-up
\* produces exactly one move-request and one drag-end per dragged window.
C6_ReentryIsNoOp ==
    [][ /\ \A id \in WinIds, p \in Pointers :
             (isDragging[id] /\ HeaderPointerDown(id, 0, p[1], p[2])) =>
               /\ dragStartRef'[id] = dragStartRef[id]
               /\ listeners' = listeners
               /\ CallCount(calls', "onDragStart", id) = 0
        /\ \A p \in Pointers, t \in WinIds \cup {"none"} :
             PointerUp(p[1], p[2], t) =>
               \A id \in DragWins :
                 /\ CallCount(calls', "onMoveRequest", id) = 1
                 /\ CallCount(calls', "onDragEnd", id) = 1 ]_vars

\* C7 (as claimed): no window ever has its drag gesture and its resize
\* gesture active together.
C7_DragResizeExclusive ==
    \A id \in WinIds : ~(isDragging[id] /\ isResizing[id])

\* C8: in every reachable state every window is at least 200 wide and 130 high.
C8_SizeAtLeastMinimum ==
    \A id \in WinIds : size[id].w >= 200 /\ size[id].h >= 130

\* C8 witness: a resize by the east edge has been pulled far to the left and
\* the width stopped at the minimum.
C8_Witness ==
    \E id \in WinIds :
        /\ isResizing[id]
        /\ resizeEdgeRef[id] = "e"
        /\ resizeStartRef[id].w = 260
        /\ size[id].w = 200

\* C9: a pointer-move during a resize with captured size (w0, h0) and delta
\* (dx, dy) sets width max(200, w0 + dx) for e, max(200, w0 - dx) for w,
\* height max(130, h0 + dy) for s, max(130, h0 - dy) for n; an axis whose
\* letters are absent from the edge keeps its value.
C9_ResizeRule ==
    [][ \A id \in ResizeWins :
          \A p \in Pointers :
            PointerMove(p[1], p[2]) =>
              LET w0 == resizeStartRef[id].w
                  h0 == resizeStartRef[id].h
                  dx == p[1] - resizeStartRef[id].x
                  dy == p[2] - resizeStartRef[id].y
                  eg == resizeEdgeRef[id]
              IN  /\ eg \in {"e", "ne", "se"} => size'[id].w = Max(200, w0 + dx)
                  /\ eg \in {"w", "nw", "sw"} => size'[id].w = Max(200, w0 - dx)
                  /\ eg \in {"n", "s"}        => size'[id].w = size[id].w
                  /\ eg \in {"s", "se", "sw"} => size'[id].h = Max(130, h0 + dy)
                  /\ eg \in {"n", "ne", "nw"} => size'[id].h = Max(130, h0 - dy)
                  /\ eg \in {"e", "w"}        => size'[id].h = size[id].h ]_vars

\* C9 witness: the south-west corner pulled down and to the right: the
\* height has grown by dy and the width is held at the minimum.
C9_Witness ==
    \E id \in WinIds :
        /\ isResizing[id]
        /\ resizeEdgeRef[id] = "sw"
        /\ size[id].w = 200
        /\ size[id].h = resizeStartRef[id].h + 420

\* C10 (as claimed): once the pointer-up of a drag or resize gesture has been
\* processed by the window element's own handler and by the global listener,
\* the window's dragging, resizing and active flags are all false.
C10_FlagsResetOnCompletion ==
    [][ \A p \in Pointers, id \in WinIds :
          (id \in DragWins \cup ResizeWins /\ PointerUp(p[1], p[2], id)) =>
            /\ ~isDragging'[id]
            /\ ~isResizing'[id]
            /\ ~isActive'[id] ]_vars

\* C11: the pointer-up of a drag ends it: the window is no longer dragging,
\* the hovered wall is null and none of the window's drag listeners remains
\* registered; and a window leaves the dragging state in no step other than
\* a pointer-up.
C11_PointerUpEndsDrag ==
    [][ /\ \A id \in DragWins :
             \A p \in Pointers, t \in WinIds \cup {"none"} :
               PointerUp(p[1], p[2], t) =>
                 /\ ~isDragging'[id]
                 /\ hoveredWall' = "null"
                 /\ \A i \in 1..Len(listeners') :
                        ~(listeners'[i].kind = "drag" /\ listeners'[i].win = id)
        /\ \A id \in WinIds :
             (isDragging[id] /\ ~isDragging'[id]) =>
               \E p \in Pointers, t \in WinIds \cup {"none"} : PointerUp(p[1], p[2], t) ]_vars

\* C11 witness: a drag during which the mobile flag was set has been ended
\* by its pointer-up.
C11_Witness ==
    /\ isMobile
    /\ downsLeft = 0
    /\ \A id \in WinIds : ~isDragging[id]
    /\ hoveredWall = "null"
    /\ listeners = <<>>
    /\ \E id \in WinIds : CallCount(calls, "onDragEnd", id) = 1

\* C12: a primary-button pointer-down on a header captures the pointer
\* coordinates and the window's position, and every pointer-move of the drag
\* sets the position to the captured position plus the pointer's displacement
\* from the captured coordinates, in both axes, without smoothing or clamping.
C12_DragPositionRule ==
    [][ /\ \A id \in WinIds :
             dragStartRef'[id] # dragStartRef[id] =>
               \E p \in Pointers :
                 /\ HeaderPointerDown(id, 0, p[1], p[2])
                 /\ dragStartRef'[id] = [px |-> p[1], py |-> p[2],
                                         mx |-> pos[id].x, my |-> pos[id].y]
        /\ \A id \in DragWins :
             \A p \in Pointers :
               PointerMove(p[1], p[2]) =>
                 /\ pos'[id].x = RPlus(dragStartRef[id].mx, R(p[1] - dragStartRef[id].px))
                 /\ pos'[id].y = RPlus(dragStartRef[id].my, R(p[2] - dragStartRef[id].py)) ]_vars

\* C12 witness: workout has been dragged 1000 px to the right of where it was
\* mounted, past the right edge of the 1200 px viewport.
C12_Witness ==
    /\ isDragging["workout"]
    /\ dragStartRef["workout"].mx = initialPos("workout").x
    /\ pos["workout"].x = RPlus(initialPos("workout").x, R(1000))
    /\ RLess(R(innerW), RPlus(pos["workout"].x, R(size["workout"].w)))

\* C13: a viewport resize, and the geometry recomputation that follows it,
\* change no captured origin (pointer origin, origin position, original size,
\* grabbed edge) and no window's position, size or wall; and whatever the
\* viewport has done since the pointer-down, a pointer-move of a gesture in
\* flight computes position and size from the captured values alone.
C13_ViewportResizeMidGesture ==
    [][ /\ (innerW' # innerW \/ innerH' # innerH \/ geom' # geom \/ roPending' # roPending) =>
             /\ dragStartRef' = dragStartRef
             /\ resizeStartRef' = resizeStartRef
             /\ resizeEdgeRef' = resizeEdgeRef
             /\ pos' = pos
             /\ size' = size
             /\ windows' = windows
        /\ \A id \in DragWins \cup ResizeWins :
             \A p \in Pointers :
               PointerMove(p[1], p[2]) =>
                 /\ id \in DragWins =>
                      pos'[id] = [x |-> RPlus(dragStartRef[id].mx, R(p[1] - dragStartRef[id].px)),
                                  y |-> RPlus(dragStartRef[id].my, R(p[2] - dragStartRef[id].py))]
                 /\ id \in ResizeWins =>
                      LET eg == resizeEdgeRef[id]
                          dx == p[1] - resizeStartRef[id].x
                          dy == p[2] - resizeStartRef[id].y
                          gw == Max(200, resizeStartRef[id].w + dx)
                          sw == Max(200, resizeStartRef[id].w - dx)
                          gh == Max(130, resizeStartRef[id].h + dy)
                          sh == Max(130, resizeStartRef[id].h - dy)
                      IN  /\ size'[id].w = IF eg \in {"w", "nw", "sw"} THEN sw
                                           ELSE IF eg \in {"e", "ne", "se"} THEN gw
                                           ELSE size[id].w
                          /\ size'[id].h = IF eg \in {"n", "ne", "nw"} THEN sh
                                           ELSE IF eg \in {"s", "se", "sw"} THEN gh
                                           ELSE size[id].h ]_vars

\* C13 witness: workout was grabbed where it was mounted at 1200 x 800, the
\* viewport became 1600 x 900 and was observed, and the pointer-move that
\* followed has put the window 1000 px to the right of the captured position.
C13_Witness ==
    /\ innerW = 1600
    /\ nResizes = 1
    /\ geom = computeGeometry(1600, 900)
    /\ isDragging["workout"]
    /\ dragStartRef["workout"].mx = initialPos("workout").x
    /\ calls = << [cb |-> "onHoverWall", win |-> "workout", wall |-> "back"] >>
    /\ pos["workout"] = [x |-> RPlus(initialPos("workout").x, R(1000)),
                         y |-> initialPos("workout").y]

\* C14: in every reachable state in which no window is dragging, the
\* composer's hovered wall is null.
C14_HoveredWallNullWhenIdle ==
    (\A id \in WinIds : ~isDragging[id]) => hoveredWall = "null"

\* C14 witness: a drag has just been released over the floor, its last
\* callbacks being the hover reset and drag-end; the hovered wall is null.
C14_Witness ==
    /\ \A id \in WinIds : ~isDragging[id]
    /\ ~dragging
    /\ hoveredWall = "null"
    /\ \E id \in WinIds :
         calls = << [cb |-> "onMoveRequest", win |-> id, wall |-> "floor"],
                    [cb |-> "onHoverWall",   win |-> id, wall |-> "null"],
                    [cb |-> "onDragEnd",     win |-> id, wall |-> "null"] >>

\* C15: a pointer-down with a button other than 0 on a header or on a resize
\* handle changes no gesture state (dragging, resizing, the composer's
\* dragging flag), captures no origin, registers no listener, invokes no
\* callback and leaves position, size and wall as they are.
C15_NonPrimaryButtonIgnored ==
    [][ downsLeft' # downsLeft =>
          \A id \in WinIds, p \in Pointers, b \in Buttons \ {0} :
            ( \/ HeaderPointerDown(id, b, p[1], p[2])
              \/ \E e \in ResizeEdges : ResizePointerDown(id, e, b, p[1], p[2]) ) =>
              /\ isDragging' = isDragging
              /\ isResizing' = isResizing
              /\ dragging' = dragging
              /\ hoveredWall' = hoveredWall
              /\ dragStartRef' = dragStartRef
              /\ resizeStartRef' = resizeStartRef
              /\ resizeEdgeRef' = resizeEdgeRef
              /\ listeners' = listeners
              /\ calls' = <<>>
              /\ pos' = pos
              /\ size' = size
              /\ windows' = windows ]_vars

\* C15 witness: while nexus is being dragged, the second pointer-down landed
\* on ace and started nothing: ace is neither dragging nor resizing and the
\* drag listener of nexus is the only one registered.
C15_Witness ==
    /\ downsLeft = 0
    /\ isDragging["nexus"]
    /\ listeners = << [kind |-> "drag", win |-> "nexus"] >>
    /\ isActive["ace"]
    /\ ~isDragging["ace"] /\ ~isResizing["ace"]
    /\ dragStartRef["ace"] = [px |-> 0, py |-> 0, mx |-> R(0), my |-> R(0)]
    /\ calls = <<>>

\* C16: while the mobile flag is set, a pointer-down on a header or on a
\* resize handle starts no gesture: dragging and resizing flags, captured
\* origins and listeners are unchanged, no callback is invoked, and wall,
\* position and size are unchanged.
C16_MobileStartsNoGesture ==
    [][ (isMobile /\ downsLeft' # downsLeft) =>
          \A id \in WinIds, p \in Pointers, b \in Buttons :
            ( \/ HeaderPointerDown(id, b, p[1], p[2])
              \/ \E e \in ResizeEdges : ResizePointerDown(id, e, b, p[1], p[2]) ) =>
              /\ isDragging' = isDragging
              /\ isResizing' = isResizing
              /\ dragging' = dragging
              /\ dragStartRef' = dragStartRef
              /\ resizeStartRef' = resizeStartRef
              /\ resizeEdgeRef' = resizeEdgeRef
              /\ listeners' = listeners
              /\ calls' = <<>>
              /\ pos' = pos
              /\ size' = size
              /\ windows' = windows ]_vars

\* C16 witness: the mobile flag is set, the pointer-down has been spent on a
\* window, and nothing is dragging, resizing, captured or registered.
C16_Witness ==
    /\ isMobile
    /\ downsLeft = 0
    /\ \E id \in WinIds : isActive[id]
    /\ \A id \in WinIds :
         /\ ~isDragging[id] /\ ~isResizing[id]
         /\ dragStartRef[id] = [px |-> 0, py |-> 0, mx |-> R(0), my |-> R(0)]
         /\ resizeEdgeRef[id] = "null"
    /\ ~dragging
    /\ listeners = <<>>
    /\ windows = INITIAL_WINDOWS

\* C17: a primary-button pointer-down on any resize handle captures the
\* window's size without changing it, a pointer-move at the captured origin
\* (zero delta) sets the size to the captured one, and no step other than a
\* pointer-move (so neither the pointer-down nor the pointer-up) changes a
\* size: a resize released at its origin ends with the size the window had
\* before the gesture.
C17_ResizeNullDelta ==
    [][ /\ \A id \in WinIds :
             resizeStartRef'[id] # resizeStartRef[id] =>
               /\ size' = size
               /\ resizeStartRef'[id].w = size[id].w
               /\ resizeStartRef'[id].h = size[id].h
               /\ resizeEdgeRef'[id] \in ResizeEdges
        /\ \A id \in ResizeWins :
             PointerMove(resizeStartRef[id].x, resizeStartRef[id].y) =>
               size'[id] = [w |-> resizeStartRef[id].w, h |-> resizeStartRef[id].h]
        /\ size' # size =>
             /\ listeners' = listeners
             /\ \E p \in Pointers : PointerMove(p[1], p[2]) ]_vars

\* C17 witness: a resize of nexus by its north-west corner, begun at
\* (500, 300) with the mounted size captured, has been released and the size
\* is the mounted size.
C17_Witness ==
    /\ ~isResizing["nexus"]
    /\ listeners = <<>>
    /\ resizeEdgeRef["nexus"] = "nw"
    /\ resizeStartRef["nexus"] = [x |-> 500, y |-> 300, w |-> 260, h |-> 180]
    /\ size["nexus"] = [w |-> 260, h |-> 180]

\* C18: in a 1200 x 800 viewport, client point (600, 720) is normalized
\* point (50, 90); when the drag of a window docked to ceiling is released
\* there, move-request is invoked with that window's id and wall floor, and
\* the store then holds wall floor for it.
C18_CeilingToFloorScenario ==
    [][ \A id \in DragWins :
          (/\ innerW = 1200 /\ innerH = 800
           /\ wallOf(windows, id) = "ceiling"
           /\ \E t \in WinIds \cup {"none"} : PointerUp(600, 720, t)) =>
            /\ RTimes(RDiv(R(600), R(innerW)), R(100)) = R(50)
            /\ RTimes(RDiv(R(720), R(innerH)), R(100)) = R(90)
            /\ CallCount(calls', "onMoveRequest", id) >= 1
            /\ \A i \in 1..Len(calls') :
                 (calls'[i].cb = "onMoveRequest" /\ calls'[i].win = id) =>
                   calls'[i].wall = "floor"
            /\ wallOf(windows', id) = "floor" ]_vars

\* C18 witness: nexus was grabbed a second time at (600, 40), where its first
\* drag towards the ceiling had left it, dragged down to (600, 720) and
\* released: move-request was invoked with floor and the store holds floor.
C18_Witness ==
    /\ downsLeft = 0
    /\ dragStartRef["nexus"] = [px |-> 600, py |-> 40,
                                mx |-> RPlus(initialPos("nexus").x, R(100)),
                                my |-> RMinus(initialPos("nexus").y, R(260))]
    /\ pos["nexus"].y = RPlus(dragStartRef["nexus"].my, R(680))
    /\ calls = << [cb |-> "onMoveRequest", win |-> "nexus", wall |-> "floor"],
                  [cb |-> "onHoverWall",   win |-> "nexus", wall |-> "null"],
                  [cb |-> "onDragEnd",     win |-> "nexus", wall |-> "null"] >>
    /\ wallOf(windows, "nexus") = "floor"

\* C19: for viewport 1200 x 800 computeGeometry returns cols = 10,
\* tilePx = 52.8 and rows = 8; the back wall is 528 px by 422.4 px, that is
\* x1 = 28, x2 = 72, y1 = 23.6, y2 = 76.4 in normalized units.
C19_Geometry1200x800 ==
    (innerW = 1200 /\ innerH = 800) =>
        /\ geom.cols = 10
        /\ geom.tilePx = Rat(528, 10)
        /\ geom.rows = 8
        /\ RTimes(R(geom.cols), geom.tilePx) = R(528)
        /\ RTimes(R(geom.rows), geom.tilePx) = Rat(4224, 10)
        /\ geom.BW = [x1 |-> R(28), y1 |-> Rat(236, 10), x2 |-> R(72), y2 |-> Rat(764, 10)]

\* C19 witness: the geometry of the 1200 x 800 viewport has been computed and
\* its back wall spans 44 by 52.8 normalized units.
C19_Witness ==
    /\ innerW = 1200 /\ innerH = 800
    /\ geom = computeGeometry(1200, 800)
    /\ RMinus(geom.BW.x2, geom.BW.x1) = R(44)
    /\ RMinus(geom.BW.y2, geom.BW.y1) = Rat(528, 10)

\* C20: for every viewport the back wall returned by computeGeometry is
\* centered on the vanishing point: (x1 + x2) / 2 = 50 and (y1 + y2) / 2 = 50.
C20_BackWallCentered ==
    /\ RDiv(RPlus(geom.BW.x1, geom.BW.x2), R(2)) = R(50)
    /\ RDiv(RPlus(geom.BW.y1, geom.BW.y2), R(2)) = R(50)
    /\ geom.VP = [x |-> R(50), y |-> R(50)]

\* C20 witness: the 250 x 100 viewport, whose back wall is taller than the
\* viewport (y1 = -5, y2 = 105) and still centered.
C20_Witness ==
    /\ innerW = 250 /\ innerH = 100
    /\ geom.BW.y1 = R(-5)
    /\ geom.BW.y2 = R(105)
    /\ RPlus(geom.BW.y1, geom.BW.y2) = R(100)

referenceCorner(wall, BW, vw, vh) ==
    LET bwPxX1 == RTimes(RDiv(BW.x1, R(100)), R(vw))
        bwPxY1 == RTimes(RDiv(BW.y1, R(100)), R(vh))
        bwPxX2 == RTimes(RDiv(BW.x2, R(100)), R(vw))
        bwPxY2 == RTimes(RDiv(BW.y2, R(100)), R(vh))
    IN  CASE wall = "back"    -> [x |-> bwPxX1, y |-> bwPxY1]
          [] wall = "ceiling" -> [x |-> bwPxX1, y |-> R(0)]
          [] wall = "floor"   -> [x |-> bwPxX1, y |-> bwPxY2]
          [] wall = "left"    -> [x |-> R(0),   y |-> bwPxY1]
          [] wall = "right"   -> [x |-> bwPxX2, y |-> bwPxY1]

\* C22 (as claimed): for a fixed wall, geometry and viewport, the default
\* positions for stacking indices i and j differ by exactly 28 * (i - j) in x
\* and in y, so they coincide only for i = j; and at index 0 the position is
\* the wall's reference corner plus the 24 px margin.
C22_DefaultPosStagger ==
    \A wall \in WallIds :
        /\ \A i, j \in 0..MaxStackIndex :
             LET pi == defaultWindowPos(wall, geom.BW, innerW, innerH, i)
                 pj == defaultWindowPos(wall, geom.BW, innerW, innerH, j)
             IN  /\ RMinus(pi.x, pj.x) = R(28 * (i - j))
                 /\ RMinus(pi.y, pj.y) = R(28 * (i - j))
                 /\ (pi = pj) <=> (i = j)
        /\ LET p0 == defaultWindowPos(wall, geom.BW, innerW, innerH, 0)
               c  == referenceCorner(wall, geom.BW, innerW, innerH)
           IN  /\ RMinus(p0.x, c.x) = R(24)
               /\ RMinus(p0.y, c.y) = R(24)

\* the callbacks of window id among cs, in order
CallsOf(cs, id) == SelectSeq(cs, LAMBDA c : c.win = id)

\* the number of drag listener pairs of window id among ls
DragCount(ls, id) == Len(SelectSeq(ls, LAMBDA l : l.kind = "drag" /\ l.win = id))

\* C23: a drag gesture of one window with one accepted pointer-down produces
\* drag-start exactly once when it begins, one hover-wall report with a wall
\* for each pointer-move while it lasts, then move-request, hover-wall(null)
\* and drag-end, once each and in this order, when the pointer is released;
\* outside the gesture no callback of the window is invoked. (A window whose
\* header accepted a second pointer-down before the release is not in such
\* a gesture.)
C23_CallbackOrder ==
    [][ \A id \in WinIds :
          LET before == id \in DragWins
              mine   == CallsOf(calls', id)
          IN  (DragCount(listeners, id) <= 1 /\ DragCount(listeners', id) <= 1) =>
              /\ (~before /\ (id \in DragWins)') =>
                    mine = << [cb |-> "onDragStart", win |-> id, wall |-> "null"] >>
              /\ (before /\ (id \in DragWins)') =>
                    /\ (\E p \in Pointers : PointerMove(p[1], p[2])) =>
                          /\ Len(mine) = 1
                          /\ mine[1].cb = "onHoverWall"
                          /\ mine[1].wall \in WallIds
                    /\ ~(\E p \in Pointers : PointerMove(p[1], p[2])) => mine = <<>>
              /\ (before /\ ~(id \in DragWins)') =>
                    /\ Len(mine) = 3
                    /\ mine[1].cb = "onMoveRequest" /\ mine[1].wall \in WallIds
                    /\ mine[2] = [cb |-> "onHoverWall", win |-> id, wall |-> "null"]
                    /\ mine[3] = [cb |-> "onDragEnd", win |-> id, wall |-> "null"]
              /\ (~before /\ ~(id \in DragWins)') => mine = <<>> ]_vars

\* C23 witness: a drag of nexus that moved the window has just been released:
\* the last event invoked move-request, hover-wall(null) and drag-end.
C23_Witness ==
    /\ Len(calls) = 3
    /\ calls[1].cb = "onMoveRequest" /\ calls[1].win = "nexus"
    /\ calls[3].cb = "onDragEnd"
    /\ pos["nexus"] # [x |-> dragStartRef["nexus"].mx, y |-> dragStartRef["nexus"].my]
    /\ listeners = <<>>

\* C24: the hover report of every pointer-move of a drag, and the target wall
\* of its pointer-up, are wallAtPoint of the pointer position normalised by
\* the viewport size at the time of that event against the back wall computed
\* from that size, whatever the viewport was at pointer-down and whether or
\* not the composer has recomputed its own geometry yet.
C24_WallFromViewportAtEvent ==
    [][ \A id \in DragWins : \A p \in Pointers :
          LET now == wallAtPoint(RTimes(RDiv(R(p[1]), R(innerW)), R(100)),
                                 RTimes(RDiv(R(p[2]), R(innerH)), R(100)),
                                 computeGeometry(innerW, innerH).BW)
              mine == CallsOf(calls', id)
          IN  /\ PointerMove(p[1], p[2]) =>
                    /\ mine # <<>>
                    /\ \A k \in 1..Len(mine) :
                         mine[k] = [cb |-> "onHoverWall", win |-> id, wall |-> now]
                    /\ hoveredWall' = now
              /\ (\E t \in WinIds \cup {"none"} : PointerUp(p[1], p[2], t)) =>
                    /\ mine[1] = [cb |-> "onMoveRequest", win |-> id, wall |-> now]
                    /\ \A k \in 1..Len(mine) :
                         mine[k].cb = "onMoveRequest" => mine[k].wall = now
                    /\ wallOf(windows', id) = now ]_vars

\* C24 witness: nexus was grabbed in the 1200 x 800 viewport, the viewport
\* became 1200 x 1300 and the composer has not recomputed its geometry yet; a
\* pointer-move to (500, 300) reported back, where the back wall of the
\* pointer-down viewport would have given ceiling.
C24_Witness ==
    /\ "nexus" \in DragWins
    /\ innerW = 1200 /\ innerH = 1300
    /\ roPending /\ geom = computeGeometry(1200, 800)
    /\ calls = << [cb |-> "onHoverWall", win |-> "nexus", wall |-> "back"] >>
    /\ pos["nexus"] = draggedPos("nexus", 500, 300)
    /\ wallAtPoint(RTimes(RDiv(R(500), R(innerW)), R(100)),
                   RTimes(RDiv(R(300), R(innerH)), R(100)), geom.BW) = "ceiling"

\* C25: within one gesture the result depends only on the latest pointer
\* position. Whatever moves came before, a pointer-move to p leaves the
\* values captured at pointer-down untouched and gives a dragged window the
\* position, and a resized window (on the axes of its grabbed edge) the size,
\* that one move to p gives straight after pointer-down; the hovered wall is
\* that of p; and the release changes neither position nor size.
C25_LatestPointerOnly ==
    [][ /\ \A p \in Pointers : PointerMove(p[1], p[2]) =>
             /\ UNCHANGED <<dragStartRef, resizeStartRef, resizeEdgeRef>>
             /\ \A id \in DragWins :
                  /\ pos'[id].x = RPlus(dragStartRef[id].mx, R(p[1] - dragStartRef[id].px))
                  /\ pos'[id].y = RPlus(dragStartRef[id].my, R(p[2] - dragStartRef[id].py))
                  /\ hoveredWall' = wallAtClientIn(innerW, innerH, p[1], p[2])
             /\ \A id \in ResizeWins :
                  LET st == resizeStartRef[id]
                      eg == resizeEdgeRef[id]
                  IN  /\ EdgeIncludes(eg, "e") => size'[id].w = Max(MIN_W, st.w + (p[1] - st.x))
                      /\ EdgeIncludes(eg, "w") => size'[id].w = Max(MIN_W, st.w - (p[1] - st.x))
                      /\ EdgeIncludes(eg, "s") => size'[id].h = Max(MIN_H, st.h + (p[2] - st.y))
                      /\ EdgeIncludes(eg, "n") => size'[id].h = Max(MIN_H, st.h - (p[2] - st.y))
        /\ (listeners # <<>> /\ listeners' = <<>>) => (pos' = pos /\ size' = size) ]_vars

\* C25 witness: a resize gesture in progress whose moves have changed the size
\* from the one captured at pointer-down.
C25_Witness ==
    \E id \in ResizeWins :
        /\ isResizing[id]
        /\ size[id] # [w |-> resizeStartRef[id].w, h |-> resizeStartRef[id].h]
        /\ size[id].w > MIN_W /\ size[id].h > MIN_H

\* moveWindow(ws, id, targetWall) keeps the number, the ids, the order and
\* every field but wall of the records, sets the wall of the record named id
\* and of no other, and returns ws when no record is named id
moveWindowFrame(ws) ==
    \A id \in WinIds \cup {"ghost"}, targetWall \in WallIds :
        LET r == moveWindow(ws, id, targetWall)
        IN  /\ Len(r) = Len(ws)
            /\ \A i \in 1..Len(ws) :
                 /\ DOMAIN r[i] = DOMAIN ws[i]
                 /\ r[i].id = ws[i].id
                 /\ r[i].title = ws[i].title
                 /\ r[i].wall = IF ws[i].id = id THEN targetWall ELSE ws[i].wall
            /\ (\A i \in 1..Len(ws) : ws[i].id # id) => r = ws

\* C26: moveWindow changes only the wall field of the matching window and
\* nothing for an id that is not in the store; the store keeps its length,
\* ids, order and other fields in every step, and a step changes a wall only
\* when a drag is released, and then only the wall of a dragged window, to
\* the wall of the move request.
C26_OnlyMoveWindowWritesWalls ==
    [][ /\ moveWindowFrame(windows)
        /\ Len(windows') = Len(windows)
        /\ \A i \in 1..Len(windows) :
             /\ windows'[i].id = windows[i].id
             /\ windows'[i].title = windows[i].title
             /\ windows'[i].wall # windows[i].wall =>
                  /\ windows[i].id \in DragWins
                  /\ listeners' = <<>>
                  /\ CallsOf(calls', windows[i].id)[1] =
                        [cb |-> "onMoveRequest", win |-> windows[i].id,
                         wall |-> windows'[i].wall] ]_vars

\* C26 witness: the release of a drag of nexus over the floor has just
\* stored floor for it; the other two records are the initial ones.
C26_Witness ==
    /\ calls # <<>>
    /\ calls[1] = [cb |-> "onMoveRequest", win |-> "nexus", wall |-> "floor"]
    /\ windows[1] = [INITIAL_WINDOWS[1] EXCEPT !.wall = "floor"]
    /\ windows[2] = INITIAL_WINDOWS[2]
    /\ windows[3] = INITIAL_WINDOWS[3]

\* C27: whenever no viewport-size notification is outstanding, the composer's
\* geometry is computeGeometry of the current viewport width and height.
C27_GeometryFollowsViewport ==
    ~roPending => geom = computeGeometry(innerW, innerH)

\* C27 witness: the viewport was resized to 1600 x 900 and the notification
\* has been processed: the geometry has the 14 columns of that viewport.
C27_Witness ==
    /\ nResizes = 1 /\ ~roPending
    /\ innerW = 1600 /\ innerH = 900
    /\ geom.cols = 14 /\ geom = computeGeometry(1600, 900)

\* C28: the back wall's pixel width is cols * tilePx and its pixel height is
\* rows * tilePx for the same tilePx = 0.44 * vw / cols, so that cols x rows
\* square tiles of side tilePx cover it exactly.
C28_SquareTiles ==
    LET BW    == geom.BW
        bwPxW == RTimes(RDiv(RMinus(BW.x2, BW.x1), R(100)), R(innerW))
        bwPxH == RTimes(RDiv(RMinus(BW.y2, BW.y1), R(100)), R(innerH))
    IN  /\ geom.cols \in Nat \ {0} /\ geom.rows \in Nat \ {0}
        /\ geom.tilePx = RDiv(RTimes(Rat(44, 100), R(innerW)), R(geom.cols))
        /\ bwPxW = RTimes(R(geom.cols), geom.tilePx)
        /\ bwPxH = RTimes(R(geom.rows), geom.tilePx)

\* C28 witness: at 1200 x 800 the tiles are 52.8 px: 10 of them across 528 px
\* and 8 of them down 422.4 px, which is not the seed height of 448 px.
C28_Witness ==
    /\ innerW = 1200 /\ innerH = 800
    /\ geom.cols = 10 /\ geom.rows = 8 /\ geom.tilePx = Rat(264, 5)
    /\ RTimes(RDiv(RMinus(geom.BW.y2, geom.BW.y1), R(100)), R(innerH)) = Rat(2112, 5)
    /\ Rat(2112, 5) # RTimes(Rat(56, 100), R(innerH))

\* the lines of ls whose path is vertical, and those whose path is horizontal
verticalLines(ls)   == SelectSeq(ls, LAMBDA l : l.d.mx = l.d.lx)
horizontalLines(ls) == SelectSeq(ls, LAMBDA l : l.d.my = l.d.ly)

\* C29: buildBackWallLines returns cols + 1 vertical lines and rows + 1
\* horizontal lines and nothing else; exactly one vertical line lies at
\* x = 50, the one of index cols / 2, and exactly one horizontal line lies at
\* y = 50, the one of index rows / 2.
\* (The lines depend on the geometry only, which a classification leaves as
\* it is, so they are built once per viewport.)
C29_BackWallLineCounts ==
    probe = NoProbe =>
        LET ls == buildBackWallLines(geom.BW, geom.cols, geom.rows)
            vs == verticalLines(ls)
            hs == horizontalLines(ls)
        IN  /\ Len(vs) = geom.cols + 1
            /\ Len(hs) = geom.rows + 1
            /\ Len(ls) = Len(vs) + Len(hs)
            /\ {k \in 1..Len(vs) : vs[k].d.mx = R(50)} = {geom.cols \div 2 + 1}
            /\ {k \in 1..Len(hs) : hs[k].d.my = R(50)} = {geom.rows \div 2 + 1}

\* C29 witness: at 1200 x 800 (10 columns, 8 rows) the back wall has 20
\* lines; the sixth is the vertical at x = 50 and the sixteenth the
\* horizontal at y = 50.
C29_Witness ==
    /\ innerW = 1200 /\ innerH = 800 /\ probe = NoProbe
    /\ LET ls == buildBackWallLines(geom.BW, geom.cols, geom.rows)
       IN  /\ Len(ls) = 20
           /\ ls[6].d = [mx |-> R(50), my |-> geom.BW.y1, lx |-> R(50), ly |-> geom.BW.y2]
           /\ ls[16].d = [mx |-> geom.BW.x1, my |-> R(50), lx |-> geom.BW.x2, ly |-> R(50)]

\* (midX, midY) of line l is the arithmetic midpoint of the endpoints of its path
isMidpoint(l) ==
    /\ l.midX = RDiv(RPlus(l.d.mx, l.d.lx), R(2))
    /\ l.midY = RDiv(RPlus(l.d.my, l.d.ly), R(2))

\* the path from point a to point b
pathFromTo(a, b) == [mx |-> a.x, my |-> a.y, lx |-> b.x, ly |-> b.y]

\* ls is the grid of a trapezoid whose outer (viewport) edge runs from outerA
\* to outerB and whose inner (back-wall) edge runs from innerA to innerB:
\* first the n + 1 depth lines, the k-th joining the points at k / n along the
\* outer and the inner edge, then the m - 1 cross lines, the k-th joining the
\* points at k / m of the way from outerA to innerA and from outerB to innerB
isTrapezoidGrid(ls, outerA, outerB, innerA, innerB, n, m) ==
    /\ Len(ls) = (n + 1) + (m - 1)
    /\ \A k \in 0..n :
         ls[k + 1].d = pathFromTo(lerp2(outerA, outerB, Rat(k, n)), lerp2(innerA, innerB, Rat(k, n)))
    /\ \A k \in 1..(m - 1) :
         ls[n + 1 + k].d = pathFromTo(lerp2(outerA, innerA, Rat(k, m)), lerp2(outerB, innerB, Rat(k, m)))

\* C30: every line returned by the five builders has (midX, midY) at the
\* arithmetic midpoint of the two endpoints of its path; the endpoints of a
\* floor, ceiling, left or right line are the interpolations at i / cols or
\* j / rows between the viewport-edge points and the back-wall-edge points,
\* and those of a back-wall line the interpolations along the back wall's
\* own edges.
\* (The lines depend on the geometry only, so they are built once per viewport.)
C30_LineMidpointsAndEndpoints ==
    probe = NoProbe =>
        LET BW    == geom.BW
            cols  == geom.cols
            rows  == geom.rows
            P(x, y) == [x |-> x, y |-> y]
            back    == buildBackWallLines(BW, cols, rows)
            floor   == buildFloorLines(BW, cols, rows)
            ceiling == buildCeilingLines(BW, cols, rows)
            left    == buildLeftLines(BW, cols, rows)
            right   == buildRightLines(BW, cols, rows)
        IN  /\ \A ls \in {back, floor, ceiling, left, right} :
                 \A k \in 1..Len(ls) : isMidpoint(ls[k])
            /\ isTrapezoidGrid(floor, P(R(0), R(100)), P(R(100), R(100)),
                               P(BW.x1, BW.y2), P(BW.x2, BW.y2), cols, rows)
            /\ isTrapezoidGrid(ceiling, P(R(0), R(0)), P(R(100), R(0)),
                               P(BW.x1, BW.y1), P(BW.x2, BW.y1), cols, rows)
            /\ isTrapezoidGrid(left, P(R(0), R(0)), P(R(0), R(100)),
                               P(BW.x1, BW.y1), P(BW.x1, BW.y2), rows, cols)
            /\ isTrapezoidGrid(right, P(R(100), R(0)), P(R(100), R(100)),
                               P(BW.x2, BW.y1), P(BW.x2, BW.y2), rows, cols)
            /\ \A i \in 0..cols :
                 back[i + 1].d = pathFromTo(lerp2(P(BW.x1, BW.y1), P(BW.x2, BW.y1), Rat(i, cols)),
                                            lerp2(P(BW.x1, BW.y2), P(BW.x2, BW.y2), Rat(i, cols)))
            /\ \A j \in 0..rows :
                 back[cols + 1 + j + 1].d =
                     pathFromTo(lerp2(P(BW.x1, BW.y1), P(BW.x1, BW.y2), Rat(j, rows)),
                                lerp2(P(BW.x2, BW.y1), P(BW.x2, BW.y2), Rat(j, rows)))

\* C30 witness: at 1200 x 800 the second depth line of the ceiling runs from
\* (10, 0) to (32.4, 23.6) with its midpoint at (21.2, 11.8), and the first
\* cross line of the floor runs from (3.5, 97.05) to (96.5, 97.05).
C30_Witness ==
    /\ innerW = 1200 /\ innerH = 800 /\ probe = NoProbe
    /\ buildCeilingLines(geom.BW, geom.cols, geom.rows)[2] =
          GridLine(R(10), R(0), Rat(324, 10), Rat(236, 10), Rat(212, 10), Rat(118, 10))
    /\ buildFloorLines(geom.BW, geom.cols, geom.rows)[12] =
          GridLine(Rat(35, 10), Rat(9705, 100), Rat(965, 10), Rat(9705, 100),
                   R(50), Rat(9705, 100))

\* ------------------------------------------------------------------------
\* Regions, concurrent gestures, the landing page and the grid animation
\* ------------------------------------------------------------------------

\* the clip polygon of each wall, in viewBox units
buildClipPaths(BW) ==
    [ back    |-> << <<BW.x1, BW.y1>>, <<BW.x2, BW.y1>>, <<BW.x2, BW.y2>>, <<BW.x1, BW.y2>> >>,
      ceiling |-> << <<R(0), R(0)>>, <<R(100), R(0)>>, <<BW.x2, BW.y1>>, <<BW.x1, BW.y1>> >>,
      floor   |-> << <<BW.x1, BW.y2>>, <<BW.x2, BW.y2>>, <<R(100), R(100)>>, <<R(0), R(100)>> >>,
      left    |-> << <<R(0), R(0)>>, <<BW.x1, BW.y1>>, <<BW.x1, BW.y2>>, <<R(0), R(100)>> >>,
      right   |-> << <<BW.x2, BW.y1>>, <<R(100), R(0)>>, <<R(100), R(100)>>, <<BW.x2, BW.y2>> >> ]

\* (px, py) lies in the closed convex polygon poly: it is on the same side of,
\* or on, every edge
inClosedRegion(px, py, poly) ==
    LET n == Len(poly)
        side(i) ==
            LET j == IF i = n THEN 1 ELSE i + 1
            IN  RMinus(RTimes(RMinus(poly[j][1], poly[i][1]), RMinus(py, poly[i][2])),
                       RTimes(RMinus(poly[j][2], poly[i][2]), RMinus(px, poly[i][1])))
    IN  \/ \A i \in 1..n : RLeq(R(0), side(i))
        \/ \A i \in 1..n : RLeq(side(i), R(0))

\* C31 (as claimed): wallAtPoint returns a wall only for points of that wall's
\* closed region: the back rectangle or the wall's clip trapezoid; so it
\* returns right only for points of the closed trapezoid (x2,y1), (100,0),
\* (100,100), (x2,y2).
C31_WallOnlyForOwnRegion ==
    probe.wall # "none" =>
        inClosedRegion(probe.px, probe.py, buildClipPaths(geom.BW)[probe.wall])

\* C32 (as claimed): with two windows dragged by two pointers, the composer's
\* dragging flag is true exactly when some window has an active drag, and the
\* release of one pointer, which ends the drag of its window, leaves the
\* other window dragged and the flag set.
C32_DraggingWhileAnyDrag ==
    [][ /\ (dragging <=> \E id \in WinIds : isDragging[id])'
        /\ (Cardinality(DragWins) = 2 /\ Len(listeners') < Len(listeners)) =>
              /\ Cardinality(DragWins') = 1
              /\ dragging' ]_vars

\* the number of resize listener pairs of window id among ls
ResizeCount(ls, id) == Len(SelectSeq(ls, LAMBDA l : l.kind = "resize" /\ l.win = id))

\* C33 (as claimed): a window never has more than one resize listener pair
\* registered, and while its resize is active no step (in particular no
\* further pointer-down on one of its resize handles) changes the captured
\* origin, the captured size or the grabbed edge.
C33_OneResizeGesturePerWindow ==
    [][ \A id \in WinIds :
          /\ ResizeCount(listeners', id) <= 1
          /\ isResizing[id] =>
               /\ resizeStartRef'[id] = resizeStartRef[id]
               /\ resizeEdgeRef'[id] = resizeEdgeRef[id] ]_vars

\* C34: a resize gesture, by whichever of the eight edges, changes neither
\* a position nor a stored wall: in every step taken while resize listeners
\* and no drag listeners are registered, and in the steps that begin and end
\* such a gesture, all positions and the store stay as they are.
C34_ResizeKeepsPositionAndWall ==
    [][ ((ResizeWins # {} \/ ResizeWins' # {}) /\ DragWins = {} /\ DragWins' = {}) =>
            /\ pos' = pos
            /\ windows' = windows ]_vars

\* C34 witness: nexus is being resized by its nw edge and pointer-moves have
\* changed its width and its height; it is where it was mounted, on its wall.
C34_Witness ==
    /\ innerW = 1200 /\ innerH = 800 /\ nResizes = 0
    /\ ResizeWins = {"nexus"} /\ DragWins = {}
    /\ resizeEdgeRef["nexus"] = "nw"
    /\ size["nexus"].w # resizeStartRef["nexus"].w
    /\ size["nexus"].h # resizeStartRef["nexus"].h
    /\ pos["nexus"] = initialPos("nexus")
    /\ windows = INITIAL_WINDOWS

\* C35: for every viewport the back wall spans x1 = 28 to x2 = 72, that is
\* 44% of the viewport width in pixels, whatever y1 and y2 are.
C35_BackWallHorizontalExtent ==
    /\ geom.BW.x1 = R(28)
    /\ geom.BW.x2 = R(72)
    /\ RTimes(RDiv(RMinus(geom.BW.x2, geom.BW.x1), R(100)), R(innerW)) =
          RTimes(Rat(44, 100), R(innerW))

\* C35 witness: a viewport whose back wall has another y1 and y2 than the
\* 23.6 and 76.4 of 1200 x 800, with x1 = 28 and x2 = 72.
C35_Witness ==
    /\ innerW = 600 /\ innerH = 1200
    /\ geom.BW.y1 # Rat(236, 10) /\ geom.BW.y2 # Rat(764, 10)
    /\ geom.BW.x1 = R(28) /\ geom.BW.x2 = R(72)

\* the cross lines of a trapezoid's grid ls, which follow its n + 1 depth lines
crossLines(ls, n) == SubSeq(ls, n + 2, Len(ls))

\* the set of first (M) endpoints and of second (L) endpoints of the lines ls
startPoints(ls) == {<<ls[k].d.mx, ls[k].d.my>> : k \in 1..Len(ls)}
endPoints(ls)   == {<<ls[k].d.lx, ls[k].d.ly>> : k \in 1..Len(ls)}

\* C36 (as claimed): the grid is continuous across the seams: on each of the
\* four diagonals between floor, ceiling, left and right, the cross lines of
\* the two surfaces that meet there end in the same points.
\* (The lines depend on the geometry only, so they are built once per viewport.)
C36_SeamsContinuous ==
    probe = NoProbe =>
        LET BW      == geom.BW
            cols    == geom.cols
            rows    == geom.rows
            floor   == crossLines(buildFloorLines(BW, cols, rows), cols)
            ceiling == crossLines(buildCeilingLines(BW, cols, rows), cols)
            left    == crossLines(buildLeftLines(BW, cols, rows), rows)
            right   == crossLines(buildRightLines(BW, cols, rows), rows)
        IN  /\ startPoints(floor) = endPoints(left)
            /\ endPoints(floor) = endPoints(right)
            /\ startPoints(ceiling) = startPoints(left)
            /\ endPoints(ceiling) = startPoints(right)

\* the wall wallAtPoint gives for the pixel position p in a vw x vh viewport
\* with back wall BW
wallOfPixel(p, BW, vw, vh) ==
    wallAtPoint(RTimes(RDiv(p.x, R(vw)), R(100)), RTimes(RDiv(p.y, R(vh)), R(100)), BW)

\* C37: in the 1200 x 800 viewport, for each wall and each stacking index 0,
\* 1, 2, the default position of a window docked to the wall, normalised, is
\* classified as that wall; so are the positions the three windows are
\* mounted at.
C37_DefaultPosInsideWall ==
    (innerW = 1200 /\ innerH = 800) =>
        /\ \A wall \in WallIds, stackIndex \in 0..2 :
             wallOfPixel(defaultWindowPos(wall, geom.BW, innerW, innerH, stackIndex),
                         geom.BW, innerW, innerH) = wall
        /\ \A id \in WinIds : wallOfPixel(pos[id], geom.BW, innerW, innerH) = wallOf(windows, id)

\* C37 witness: in the 1200 x 800 viewport workout, docked to left with
\* stacking index 2, is mounted at (80, 244.8), which is classified as left.
C37_Witness ==
    /\ innerW = 1200 /\ innerH = 800
    /\ pos["workout"] = [x |-> R(80), y |-> Rat(2448, 10)]
    /\ pos["workout"] = defaultWindowPos("left", geom.BW, innerW, innerH, 2)
    /\ wallOfPixel(pos["workout"], geom.BW, innerW, innerH) = "left"

\* the edges of the cycle landing -> orb-expanding -> portal -> dashboard -> returning -> landing
CycleEdges ==
    { <<"landing", "orb-expanding">>, <<"orb-expanding", "portal">>, <<"portal", "dashboard">>,
      <<"dashboard", "returning">>, <<"returning", "landing">> }

\* a timeout that sets transitionState is pending
TransitionPending == \E k \in 1..Len(timers) : timers[k].fn \in TransitionStates

\* C38: under every interleaving of orb clicks, back clicks and timer firings,
\* transitionState changes only along the cycle landing -> orb-expanding ->
\* portal -> dashboard -> returning -> landing; a timeout is scheduled only by
\* an orb click in state landing (portal and dashboard) or by a back click in
\* state dashboard (landing); in every other state a click changes nothing.
C38_TransitionCycle ==
    [][ /\ transitionState' # transitionState =>
              <<transitionState, transitionState'>> \in CycleEdges
        /\ Len(timers') > Len(timers) =>
              \/ /\ transitionState = "landing"
                 /\ transitionState' = "orb-expanding"
                 /\ timers' = timers \o << [due |-> PORTAL_MS, fn |-> "portal"],
                                           [due |-> DASHBOARD_MS, fn |-> "dashboard"] >>
              \/ /\ transitionState = "dashboard"
                 /\ transitionState' = "returning"
                 /\ timers' = timers \o << [due |-> RETURN_MS, fn |-> "landing"] >>
        /\ (transitionState \in {"orb-expanding", "portal", "returning"}
              /\ transitionState' = transitionState) =>
              Len(timers') <= Len(timers) ]_vars

\* the page has gone round the cycle and is on its way back to landing while
\* the entry choreography has finished
C38_Witness ==
    /\ transitionState = "returning"
    /\ stage = 3
    /\ timers = << [due |-> 0, fn |-> "landing"] >>

\* C39: when scheduled timeouts eventually fire, an orb click accepted in
\* state landing (the page is then in orb-expanding) leads to dashboard and a
\* back click accepted in state dashboard (the page is then in returning)
\* leads to landing; the page stays in none of orb-expanding, portal and
\* returning forever, and while it is in one of them the timeout that takes
\* it on is pending.
C39_TransitionsComplete ==
    /\ (transitionState = "orb-expanding") ~> (transitionState = "dashboard")
    /\ (transitionState = "portal") ~> (transitionState = "dashboard")
    /\ (transitionState = "returning") ~> (transitionState = "landing")
    /\ [](transitionState \in {"orb-expanding", "portal", "returning"} => TransitionPending)

\* the accepted orb click has run to its end: the page is the dashboard and no
\* timeout is left
C39_Witness ==
    /\ transitionState = "dashboard"
    /\ stage = 3
    /\ timers = <<>>

\* C40: in Grid3D, whenever isAnimating becomes true it eventually becomes
\* false again, for every sequence of changes of the activated prop, also when
\* activated goes back to false before the reset timeout fires.
C40_AnimationEnds == isAnimating ~> ~isAnimating

====
